---- MODULE Spec2Model ----
(***************************************************************************)
(* Model of the tsql_eval evaluation engine: the orchestrator run_eval     *)
(* (runner.py), the four metrics (metrics/*.py) and the result comparator  *)
(* of ExecutionAccuracyMetric.                                             *)
(*                                                                         *)
(* Python values are records [k, v]; exceptions are results with           *)
(* ok = FALSE.  Scores are exact rationals [n, d] (d > 0).                 *)
(***************************************************************************)
EXTENDS Integers, Sequences, FiniteSets, TLC

\* ------------------------------------------------------------------------
\* Bounds of the model
\* ------------------------------------------------------------------------
MaxCases == 2
\* test cases in the files of a call that is rejected before it reads them
RejectedCases == 1
MaxCands == 2
MaxRows == 2
MaxTokens == 3
ExtraDigits == 1

\* ------------------------------------------------------------------------
\* Program constants
\* ------------------------------------------------------------------------
RoundDigits == 6

\* ------------------------------------------------------------------------
\* Generic helpers
\* ------------------------------------------------------------------------
RECURSIVE Pow10(_)
Pow10(n) == IF n = 0 THEN 1 ELSE 10 * Pow10(n - 1)

Unit == Pow10(ExtraDigits)
Scale == Pow10(RoundDigits + ExtraDigits)

SeqsUpTo(S, n) == UNION {[1..m -> S] : m \in 0..n}

\* F applied to the value of e, e being evaluated once
Bind(e, F(_)) == CHOOSE y \in {F(x) : x \in {e}} : TRUE

Ok(x) == [ok |-> TRUE, val |-> x]
Raise(e) == [ok |-> FALSE, val |-> e]

\* ------------------------------------------------------------------------
\* Python scalar values as returned by a DB driver
\* ------------------------------------------------------------------------
None == [k |-> "none", v |-> 0]
NaN == [k |-> "nan", v |-> 0]
PyInt(n) == [k |-> "int", v |-> n]
\* a float holds v units of 10^-(RoundDigits + ExtraDigits)
PyFloat(m) == [k |-> "float", v |-> m]
PyStr(s) == [k |-> "str", v |-> s]

NullSentinel == PyStr("__NULL__")

IsNull(c) == c.k \in {"none", "nan"}
IsNum(c) == c.k \in {"int", "float"}
Num(c) == IF c.k = "int" THEN c.v * Scale ELSE c.v

\* code points order the strings the model uses: '_' (0x5F) < 'a' < 'b'
StrRank(s) == CASE s = "__NULL__" -> 0 [] s = "a" -> 1 [] s = "b" -> 2 [] OTHER -> 3

\* Python ==
PyEq(a, b) ==
    CASE IsNum(a) /\ IsNum(b) -> Num(a) = Num(b)
      [] a.k = "str" /\ b.k = "str" -> a.v = b.v
      [] a.k = "none" /\ b.k = "none" -> TRUE
      [] OTHER -> FALSE

\* Python <: a TypeError unless both are numbers or both are strings
PyLt(a, b) ==
    CASE IsNum(a) /\ IsNum(b) -> Ok(Num(a) < Num(b))
      [] a.k = "str" /\ b.k = "str" -> Ok(StrRank(a.v) < StrRank(b.v))
      [] a.k = "nan" /\ IsNum(b) -> Ok(FALSE)
      [] IsNum(a) /\ b.k = "nan" -> Ok(FALSE)
      [] a.k = "nan" /\ b.k = "nan" -> Ok(FALSE)
      [] OTHER -> Raise("TypeError")

\* first index at which two tuples differ under ==, 0 if none up to the shorter
RECURSIVE FirstDiff(_, _, _)
FirstDiff(a, b, i) ==
    IF i > Len(a) \/ i > Len(b) THEN 0
    ELSE IF PyEq(a[i], b[i]) THEN FirstDiff(a, b, i + 1) ELSE i

TupleEq(a, b) == Len(a) = Len(b) /\ FirstDiff(a, b, 1) = 0

\* tuple <: lexicographic, the first differing pair decides (and may raise)
TupleLt(a, b) ==
    LET i == FirstDiff(a, b, 1)
    IN IF i = 0 THEN Ok(Len(a) < Len(b)) ELSE PyLt(a[i], b[i])

\* list ==
ListEq(x, y) == Len(x) = Len(y) /\ \A i \in 1..Len(x) : TupleEq(x[i], y[i])

\* ------------------------------------------------------------------------
\* sorted(): a stable comparison sort; it raises exactly when a comparison
\* it needs raises
\* ------------------------------------------------------------------------
InsertAt(s, j, x) == SubSeq(s, 1, j) \o <<x>> \o SubSeq(s, j + 1, Len(s))

\* insert x into the sorted list s, scanning from position j down
RECURSIVE InsertRow(_, _, _)
InsertRow(s, x, j) ==
    IF j = 0 THEN Ok(InsertAt(s, 0, x))
    ELSE Bind(TupleLt(x, s[j]), LAMBDA c :
            IF ~c.ok THEN c
            ELSE IF c.val THEN InsertRow(s, x, j - 1)
            ELSE Ok(InsertAt(s, j, x)))

RECURSIVE SortedFrom(_, _, _)
SortedFrom(rows, acc, i) ==
    IF i > Len(rows) THEN Ok(acc)
    ELSE Bind(InsertRow(acc, rows[i], Len(acc)), LAMBDA r :
            IF r.ok THEN SortedFrom(rows, r.val, i + 1) ELSE r)

PySorted(rows) == SortedFrom(rows, <<>>, 1)

\* ------------------------------------------------------------------------
\* ExecutionAccuracyMetric._canon_rows
\* ------------------------------------------------------------------------
\* A float cell is written as v units of 10^-(RoundDigits + ExtraDigits);
\* the value held is the double nearest to that decimal.  round(v, 6)
\* rounds the double, not the decimal: half-way cases go to the even
\* neighbour only when the double is the decimal exactly, and otherwise to
\* the side the double lies on.
\* abs()
Abs(x) == IF x < 0 THEN -x ELSE x

RECURSIVE BitLength(_)
BitLength(n) == IF n = 0 THEN 0 ELSE 1 + BitLength(n \div 2)

\* the least k with n * 2^k >= Scale, for 0 < n < Scale
RECURSIVE ShiftsToScale(_)
ShiftsToScale(n) == IF n >= Scale THEN 0 ELSE 1 + ShiftsToScale(2 * n)

\* (r * 2^n) % Scale, four doublings at a time
RECURSIVE DoubledMod(_, _)
DoubledMod(r, n) ==
    IF n = 0 THEN r
    ELSE IF n >= 4 THEN Bind((16 * r) % Scale, LAMBDA next : DoubledMod(next, n - 4))
    ELSE Bind((2 * r) % Scale, LAMBDA next : DoubledMod(next, n - 1))

\* the side of the decimal a / Scale (a > 0) on which its double lies:
\* -1 below, 0 on it, 1 above.  The double is m / 2^shift with m the integer
\* nearest to a * 2^shift / Scale and 2^52 <= m < 2^53; an integer a below
\* 2^31 is never half-way between two such m.
DoubleSide(a) ==
    Bind(IF a >= Scale THEN 53 - BitLength(a \div Scale) ELSE 52 + ShiftsToScale(a),
         LAMBDA shift :
    Bind(DoubledMod(a % Scale, shift), LAMBDA r :
       IF r = 0 THEN 0 ELSE IF 2 * r < Scale THEN -1 ELSE 1))

\* round(v, 6) (lines 66 and 119)
Round6(m) ==
    Bind(IF m < 0 THEN -m ELSE m, LAMBDA a :
    Bind(a - (a % Unit), LAMBDA down :
    Bind(IF 2 * (a % Unit) < Unit THEN FALSE
         ELSE IF 2 * (a % Unit) > Unit THEN TRUE
         ELSE Bind(DoubleSide(a), LAMBDA side :
                 side = 1 \/ (side = 0 /\ (down \div Unit) % 2 = 1)),
         LAMBDA up :
       (IF m < 0 THEN -1 ELSE 1) * (IF up THEN down + Unit ELSE down))))

CanonCell(c) ==
    IF IsNull(c) THEN None
    ELSE IF c.k = "float" THEN PyFloat(Round6(c.v))
    ELSE c

CanonRow(r) == [i \in 1..Len(r) |-> CanonCell(r[i])]

\* the rows are sorted whatever ignore_order says (line 122)
CanonRows(rows) ==
    Bind([i \in 1..Len(rows) |-> CanonRow(rows[i])], LAMBDA out : PySorted(out))

\* ------------------------------------------------------------------------
\* pandas DataFrame: column labels, one dtype per column, rows of cells
\* ------------------------------------------------------------------------
Column(rows, j) == [i \in 1..Len(rows) |-> rows[i][j]]

\* dtype inference of an object column (maybe_convert_objects)
InferDtype(vals) ==
    LET S == {vals[i] : i \in 1..Len(vals)}
    IN IF S # {} /\ \A c \in S : c.k = "int" THEN "int64"
       ELSE IF (\A c \in S : c.k \in {"int", "float", "nan", "none"})
               /\ (\E c \in S : c.k \in {"int", "float", "nan"}) THEN "float64"
       ELSE "object"

\* the value a cell takes in a column of the given dtype
Coerce(c, dtype) ==
    IF dtype = "float64"
    THEN (IF IsNull(c) THEN NaN ELSE PyFloat(Num(c)))
    ELSE c

Width(rows) == IF Len(rows) = 0 THEN 0 ELSE Len(rows[1])

MakeFrame(labels, rows) ==
    Bind([j \in 1..Len(labels) |-> InferDtype(Column(rows, j))], LAMBDA dt :
        [columns |-> labels,
         dtypes |-> dt,
         rows |-> [i \in 1..Len(rows) |->
                     [j \in 1..Len(labels) |-> Coerce(rows[i][j], dt[j])]]])

\* pd.DataFrame(list(rows)): the labels are 0..n-1
FrameOfRows(rows) == MakeFrame([j \in 1..Width(rows) |-> PyInt(j - 1)], rows)

\* str(c) of a label
StrOf(c) ==
    IF c.k = "int"
    THEN PyStr(CASE c.v = 0 -> "0" [] c.v = 1 -> "1" [] c.v = 2 -> "2" [] OTHER -> "n")
    ELSE c

\* _norm_df._cell (lines 56-67)
NormCell(c) ==
    IF c.k = "none" THEN None
    ELSE IF c.k = "nan" THEN None
    ELSE IF c.k = "float" THEN PyFloat(Round6(c.v))
    ELSE c

\* DataFrame.map(_cell): element-wise, each column's dtype inferred again
FrameMap(df) ==
    Bind([i \in 1..Len(df.rows) |->
             [j \in 1..Len(df.columns) |-> NormCell(df.rows[i][j])]],
         LAMBDA mapped : MakeFrame(df.columns, mapped))

\* DataFrame.fillna(value): a float64 column that held a NaN becomes object
FillNa(df, value) ==
    LET n == Len(df.columns)
        hasNull(j) == \E i \in 1..Len(df.rows) : IsNull(df.rows[i][j])
    IN [columns |-> df.columns,
        dtypes |-> [j \in 1..n |-> IF hasNull(j) THEN "object" ELSE df.dtypes[j]],
        rows |-> [i \in 1..Len(df.rows) |->
                    [j \in 1..n |-> IF IsNull(df.rows[i][j]) THEN value
                                    ELSE df.rows[i][j]]]]

\* order of two non-null values of one column, as numpy argsort compares them
ValueLt(a, b) == PyLt(a, b)

\* sort_values(by=[c]) with one column (nargsort): the nulls go last, the
\* others are ordered by comparison, which raises on str against number
RECURSIVE InsertByValue(_, _, _)
InsertByValue(s, x, j) ==
    IF j = 0 THEN Ok(InsertAt(s, 0, x))
    ELSE Bind(ValueLt(x[1], s[j][1]), LAMBDA c :
            IF ~c.ok THEN c
            ELSE IF c.val THEN InsertByValue(s, x, j - 1)
            ELSE Ok(InsertAt(s, j, x)))

RECURSIVE SortByValueFrom(_, _, _)
SortByValueFrom(rows, acc, i) ==
    IF i > Len(rows) THEN Ok(acc)
    ELSE Bind(InsertByValue(acc, rows[i], Len(acc)), LAMBDA r :
            IF r.ok THEN SortByValueFrom(rows, r.val, i + 1) ELSE r)

SelectRows(rows, Keep(_)) ==
    LET F[i \in 0..Len(rows)] ==
            IF i = 0 THEN <<>>
            ELSE IF Keep(rows[i]) THEN Append(F[i - 1], rows[i]) ELSE F[i - 1]
    IN F[Len(rows)]

SortOneColumn(rows) ==
    LET notNull(r) == ~IsNull(r[1])
        isNull(r) == IsNull(r[1])
    IN Bind(SelectRows(rows, notNull), LAMBDA others :
         Bind(SortByValueFrom(others, <<>>, 1), LAMBDA s :
            IF s.ok THEN Ok(s.val \o SelectRows(rows, isNull)) ELSE s))

\* sort_values(by=[c1, c2, ..]) (lexsort_indexer): every column is ranked
\* through its sorted categories, numbers before strings, nulls last; no
\* comparison raises
KeyClass(c) == IF IsNull(c) THEN 2 ELSE IF c.k = "str" THEN 1 ELSE 0

KeyEq(a, b) == (IsNull(a) /\ IsNull(b)) \/ PyEq(a, b)

KeyLt(a, b) ==
    IF KeyClass(a) # KeyClass(b) THEN KeyClass(a) < KeyClass(b)
    ELSE IF KeyClass(a) = 0 THEN Num(a) < Num(b)
    ELSE IF KeyClass(a) = 1 THEN StrRank(a.v) < StrRank(b.v)
    ELSE FALSE

RECURSIVE RowKeyLt(_, _, _)
RowKeyLt(a, b, j) ==
    IF j > Len(a) THEN FALSE
    ELSE IF KeyEq(a[j], b[j]) THEN RowKeyLt(a, b, j + 1)
    ELSE KeyLt(a[j], b[j])

RECURSIVE InsertByKey(_, _, _)
InsertByKey(s, x, j) ==
    IF j = 0 THEN InsertAt(s, 0, x)
    ELSE IF RowKeyLt(x, s[j], 1) THEN InsertByKey(s, x, j - 1)
    ELSE InsertAt(s, j, x)

RECURSIVE SortByKeyFrom(_, _, _)
SortByKeyFrom(rows, acc, i) ==
    IF i > Len(rows) THEN acc
    ELSE Bind(InsertByKey(acc, rows[i], Len(acc)), LAMBDA r :
            SortByKeyFrom(rows, r, i + 1))

\* df.sort_values(by=list(df.columns)).reset_index(drop=True)
SortValues(df) ==
    IF Len(df.columns) = 1
    THEN Bind(SortOneColumn(df.rows), LAMBDA s :
            IF s.ok THEN Ok([df EXCEPT !.rows = s.val]) ELSE s)
    ELSE Ok([df EXCEPT !.rows = SortByKeyFrom(df.rows, <<>>, 1)])

\* a normalisation that leaves the rows in the order they came
NormDfKeepOrder(df, ignore_order, null_equal) ==
    Bind([df EXCEPT !.columns = [j \in 1..Len(df.columns) |-> StrOf(df.columns[j])]],
         LAMBDA df1 :
    Bind(FrameMap(df1), LAMBDA df2 :
        Ok(IF null_equal THEN FillNa(df2, NullSentinel) ELSE df2)))

\* ExecutionAccuracyMetric._norm_df (lines 48-83)
NormDf(df, ignore_order, null_equal) ==
    Bind([df EXCEPT !.columns = [j \in 1..Len(df.columns) |-> StrOf(df.columns[j])]],
         LAMBDA df1 :
    Bind(FrameMap(df1), LAMBDA df2 :
    Bind(IF null_equal THEN FillNa(df2, NullSentinel) ELSE df2, LAMBDA df3 :
        IF ignore_order /\ Len(df3.columns) # 0 THEN SortValues(df3) ELSE Ok(df3))))

\* DataFrame.equals: same labels, same length, same dtypes, equal cells
\* (nulls in the same place are equal)
FrameEquals(a, b) ==
    /\ a.columns = b.columns
    /\ Len(a.rows) = Len(b.rows)
    /\ a.dtypes = b.dtypes
    /\ \A i \in 1..Len(a.rows) : \A j \in 1..Len(a.columns) :
          KeyEq(a.rows[i][j], b.rows[i][j])

\* ------------------------------------------------------------------------
\* Python floats (IEEE 754 binary64, round to nearest, ties to even)
\* ------------------------------------------------------------------------
\* Natural numbers of any size: sequences of limbs below 2^14, the least
\* significant first, without leading zero limbs
RECURSIVE Pow2(_)
Pow2(n) == IF n = 0 THEN 1 ELSE 2 * Pow2(n - 1)

Limb == Pow2(14)

RECURSIVE NatOfInt(_)
NatOfInt(n) == IF n = 0 THEN <<>> ELSE <<n % Limb>> \o NatOfInt(n \div Limb)

RECURSIVE Trim(_)
Trim(x) ==
    IF x = <<>> THEN x
    ELSE IF x[Len(x)] = 0 THEN Trim(SubSeq(x, 1, Len(x) - 1))
    ELSE x

LimbAt(x, i) == IF i <= Len(x) THEN x[i] ELSE 0

NatBits(x) == IF x = <<>> THEN 0 ELSE 14 * (Len(x) - 1) + BitLength(x[Len(x)])

\* -1, 0, 1 as x is below, equal to, above y
RECURSIVE NatCmpAt(_, _, _)
NatCmpAt(x, y, i) ==
    IF i = 0 THEN 0
    ELSE IF x[i] # y[i] THEN (IF x[i] < y[i] THEN -1 ELSE 1)
    ELSE NatCmpAt(x, y, i - 1)

NatCmp(x, y) ==
    IF Len(x) # Len(y) THEN (IF Len(x) < Len(y) THEN -1 ELSE 1)
    ELSE NatCmpAt(x, y, Len(x))

RECURSIVE NatAddFrom(_, _, _, _, _)
NatAddFrom(x, y, i, carry, acc) ==
    IF i > Len(x) /\ i > Len(y)
    THEN (IF carry = 0 THEN acc ELSE Append(acc, carry))
    ELSE Bind(LimbAt(x, i) + LimbAt(y, i) + carry, LAMBDA t :
            NatAddFrom(x, y, i + 1, t \div Limb, Append(acc, t % Limb)))

NatAdd(x, y) == NatAddFrom(x, y, 1, 0, <<>>)

\* x - y for x >= y
RECURSIVE NatSubFrom(_, _, _, _, _)
NatSubFrom(x, y, i, borrow, acc) ==
    IF i > Len(x) THEN Trim(acc)
    ELSE Bind(x[i] - LimbAt(y, i) - borrow, LAMBDA t :
            IF t < 0 THEN NatSubFrom(x, y, i + 1, 1, Append(acc, t + Limb))
            ELSE NatSubFrom(x, y, i + 1, 0, Append(acc, t)))

NatSub(x, y) == NatSubFrom(x, y, 1, 0, <<>>)

\* x * k for 0 <= k <= 2^14
RECURSIVE NatScaleFrom(_, _, _, _, _)
NatScaleFrom(x, k, i, carry, acc) ==
    IF i > Len(x) THEN (IF carry = 0 THEN acc ELSE Append(acc, carry))
    ELSE Bind(x[i] * k + carry, LAMBDA t :
            NatScaleFrom(x, k, i + 1, t \div Limb, Append(acc, t % Limb)))

NatScale(x, k) == IF k = 0 THEN <<>> ELSE NatScaleFrom(x, k, 1, 0, <<>>)

\* x * 2^(14 * q)
ShiftLimbs(x, q) == IF x = <<>> THEN x ELSE [i \in 1..q |-> 0] \o x

RECURSIVE NatMulFrom(_, _, _, _)
NatMulFrom(x, y, j, acc) ==
    IF j > Len(y) THEN acc
    ELSE Bind(NatAdd(acc, ShiftLimbs(NatScale(x, y[j]), j - 1)), LAMBDA sum :
            NatMulFrom(x, y, j + 1, sum))

NatMul(x, y) == NatMulFrom(x, y, 1, <<>>)

\* x * 2^n
NatShl(x, n) == ShiftLimbs(NatScale(x, Pow2(n % 14)), n \div 14)

\* x / 2^n: the quotient q, and whether a remainder is left
NatShr(x, n) ==
    Bind(SubSeq(x, (n \div 14) + 1, Len(x)), LAMBDA y :
    Bind(Pow2(n % 14), LAMBDA low :
       [q |-> Trim([i \in 1..Len(y) |->
                      (y[i] \div low) + (LimbAt(y, i + 1) % low) * (Limb \div low)]),
        sticky |-> \/ \E i \in 1..(n \div 14) : LimbAt(x, i) # 0
                   \/ (y # <<>> /\ y[1] % low # 0)]))

\* A float is s * m * 2^e with s the sign (0 for 0.0), and m a natural of
\* exactly 53 bits.  Inputs are bounded so that no result overflows or is
\* subnormal; -0.0 is not told from 0.0 (the two compare equal).
Zero == [s |-> 0, m |-> <<>>, e |-> 0]

\* Python's None in place of a score
NoScore == [s |-> 0, m |-> <<>>, e |-> -1]

\* the float nearest to s * (n + f) * 2^e, n > 0, where 0 <= f < 1 and f is
\* not 0 exactly when sticky; with sticky, n has more than 54 bits
RoundNat(s, n, e, sticky) ==
    Bind(NatBits(n), LAMBDA len :
       IF len <= 53 THEN [s |-> s, m |-> NatShl(n, 53 - len), e |-> e - (53 - len)]
       ELSE Bind(NatShr(n, len - 54), LAMBDA t :
            Bind(NatShr(t.q, 1).q, LAMBDA kept :
            Bind(IF t.q[1] % 2 = 1 /\ (t.sticky \/ sticky \/ kept[1] % 2 = 1)
                 THEN NatAdd(kept, <<1>>) ELSE kept, LAMBDA m :
               IF NatBits(m) = 54
               THEN [s |-> s, m |-> NatShr(m, 1).q, e |-> e + (len - 53) + 1]
               ELSE [s |-> s, m |-> m, e |-> e + (len - 53)]))))

\* float(n) of an int
FloatOfInt(n) ==
    IF n = 0 THEN Zero
    ELSE RoundNat(IF n < 0 THEN -1 ELSE 1, NatOfInt(IF n < 0 THEN -n ELSE n), 0, FALSE)

One == FloatOfInt(1)

\* -1, 0, 1 as a is below, equal to, above b
FloatCmp(a, b) ==
    IF a.s # b.s THEN (IF a.s < b.s THEN -1 ELSE 1)
    ELSE IF a.s = 0 THEN 0
    ELSE IF a.e # b.e THEN (IF a.e < b.e THEN -a.s ELSE a.s)
    ELSE a.s * NatCmp(a.m, b.m)

FloatLeq(a, b) == FloatCmp(a, b) <= 0
FloatLt(a, b) == FloatCmp(a, b) < 0

\* a * b
FloatMul(a, b) ==
    IF a.s = 0 \/ b.s = 0 THEN Zero
    ELSE RoundNat(a.s * b.s, NatMul(a.m, b.m), a.e + b.e, FALSE)

\* hi + lo for hi.e >= lo.e, neither 0.0
FloatAddAligned(hi, lo) ==
    IF hi.e - lo.e > 60 THEN hi
    ELSE Bind(NatShl(hi.m, hi.e - lo.e), LAMBDA x :
           IF hi.s = lo.s THEN RoundNat(hi.s, NatAdd(x, lo.m), lo.e, FALSE)
           ELSE Bind(NatCmp(x, lo.m), LAMBDA c :
                  IF c = 0 THEN Zero
                  ELSE IF c > 0 THEN RoundNat(hi.s, NatSub(x, lo.m), lo.e, FALSE)
                  ELSE RoundNat(lo.s, NatSub(lo.m, x), lo.e, FALSE)))

\* a + b
FloatAdd(a, b) ==
    IF a.s = 0 THEN b
    ELSE IF b.s = 0 THEN a
    ELSE IF a.e >= b.e THEN FloatAddAligned(a, b)
    ELSE FloatAddAligned(b, a)

\* the greatest q with q * d <= r, for a qhat that is not below it, and the
\* remainder r - q * d
RECURSIVE DigitBelow(_, _, _)
DigitBelow(r, d, qhat) ==
    Bind(NatScale(d, qhat), LAMBDA prod :
       IF NatCmp(prod, r) <= 0 THEN [q |-> qhat, r |-> NatSub(r, prod)]
       ELSE DigitBelow(r, d, qhat - 1))

\* one digit of long division in base 2^14: floor(r / d) for r < d * 2^14,
\* d of four limbs with the highest at least 2^13; the two highest limbs of r
\* over the highest of d are never below the digit
DivDigit(r, d) ==
    Bind((LimbAt(r, 5) * Limb + LimbAt(r, 4)) \div d[4], LAMBDA qhat :
       DigitBelow(r, d, IF qhat < Limb THEN qhat ELSE Limb - 1))

\* k more digits of the quotient r / d: floor(r * 2^(14 * k) / d) added
\* under the digits q, and whether a remainder is left
RECURSIVE DivLimbs(_, _, _, _)
DivLimbs(r, d, k, q) ==
    IF k = 0 THEN [q |-> Trim(q), sticky |-> r # <<>>]
    ELSE Bind(DivDigit(ShiftLimbs(r, 1), d), LAMBDA step :
            DivLimbs(step.r, d, k - 1, <<step.q>> \o q))

\* a / b, b not 0.0: 56 or 57 bits of the quotient of the mantissas, rounded
FloatDiv(a, b) ==
    IF a.s = 0 THEN Zero
    ELSE Bind(NatScale(b.m, 8), LAMBDA d :
         Bind(DivDigit(NatScale(a.m, 8), d), LAMBDA first :
         Bind(DivLimbs(first.r, d, 4, <<first.q>>), LAMBDA quot :
            RoundNat(a.s * b.s, quot.q, a.e - b.e - 56, quot.sticky))))

\* the float a decimal literal n / d stands for (0.85 is Decimal(85, 100))
Decimal(n, d) == FloatDiv(FloatOfInt(n), FloatOfInt(d))

Half == Decimal(1, 2)

\* ------------------------------------------------------------------------
\* SQL texts and str.strip()
\* ------------------------------------------------------------------------
Strip(s) ==
    CASE s = " " -> ""
      [] s = " qa " -> "qa"
      [] OTHER -> s

\* ------------------------------------------------------------------------
\* Backend (SQLAlchemyBackend): db maps a SQL text to the rows it returns
\* or to the error the engine raises
\* ------------------------------------------------------------------------
\* The backend object is duck-typed: the metric probes it for fetch_df,
\* exec and execute.  backend.fetch_df is "absent" when the object has no
\* such method, "raises" when it has one that fails and "frame" when it
\* has one that returns the result as a DataFrame; backend.exec is "rows"
\* when exec() returns the rows of the result and "none" when it returns
\* None.
VARIABLE backend

\* SQLAlchemyBackend: execute and exec, no fetch_df
SQLAlchemyBackend == [fetch_df |-> "absent", exec |-> "rows"]

\* an object with exec() whose fetch_df() raises
NoTableBackend == [fetch_df |-> "raises", exec |-> "rows"]

\* SparkBackend: fetch_df() is pd.read_sql, exec() runs the statement and
\* returns nothing
SparkBackend == [fetch_df |-> "frame", exec |-> "none"]

\* the answer of an engine that reports the names of the result's columns
Named(columns, rows) == [ok |-> TRUE, val |-> rows, columns |-> columns]

\* the engine runs the statement: the rows of the result or the error
\* raised
BackendExec(db, sql) ==
    IF sql \in DOMAIN db THEN db[sql] ELSE Raise("ExecutionError")

\* the names of the columns of a result; an engine that is not asked for
\* them names the columns by position
EngineColumns(r) ==
    IF "columns" \in DOMAIN r THEN [j \in 1..Len(r.columns) |-> PyStr(r.columns[j])]
    ELSE [j \in 1..Width(r.val) |->
            PyStr(CASE j = 1 -> "a" [] j = 2 -> "b" [] j = 3 -> "c" [] OTHER -> "d")]

\* _fetch_df (lines 85-98): fetch_df() if the backend has one (its frame is
\* labelled by the engine's column names), else the rows of exec() in a
\* DataFrame
FetchDf(db, sql) ==
    IF backend.fetch_df = "raises" THEN Raise("RuntimeError")
    ELSE Bind(BackendExec(db, sql), LAMBDA r :
            IF ~r.ok THEN r
            ELSE IF backend.fetch_df = "frame"
            THEN Ok(MakeFrame(EngineColumns(r), r.val))
            ELSE Ok(FrameOfRows(r.val)))

\* _fetch_rows (lines 124-132): list(backend.exec(sql)); list(None) raises
FetchRows(db, sql) ==
    Bind(BackendExec(db, sql), LAMBDA r :
        IF ~r.ok THEN Raise(r.val)
        ELSE IF backend.exec = "none" THEN Raise("TypeError")
        ELSE Ok(r.val))

\* A comparison returns [ok, val, execs]: execs lists the SQL texts it sent
\* to the backend, in order.
WithExecs(r, execs) == [ok |-> r.ok, val |-> r.val, execs |-> execs]

\* _compare_df (lines 136-139)
CompareDf(self, db, gold_sql, pred_sql) ==
    Bind(FetchDf(db, gold_sql), LAMBDA g :
      IF ~g.ok THEN WithExecs(g, <<gold_sql>>)
      ELSE Bind(FetchDf(db, pred_sql), LAMBDA p :
        IF ~p.ok THEN WithExecs(p, <<gold_sql, pred_sql>>)
        ELSE Bind(NormDf(g.val, self.ignore_order, self.null_equal), LAMBDA ng :
          IF ~ng.ok THEN WithExecs(ng, <<gold_sql, pred_sql>>)
          ELSE Bind(NormDf(p.val, self.ignore_order, self.null_equal), LAMBDA np :
            IF ~np.ok THEN WithExecs(np, <<gold_sql, pred_sql>>)
            ELSE WithExecs(Ok(FrameEquals(ng.val, np.val)), <<gold_sql, pred_sql>>)))))

\* _compare_rows (lines 141-144)
CompareRows(self, db, gold_sql, pred_sql) ==
    Bind(FetchRows(db, gold_sql), LAMBDA g :
      IF ~g.ok THEN WithExecs(g, <<gold_sql>>)
      ELSE Bind(FetchRows(db, pred_sql), LAMBDA p :
        IF ~p.ok THEN WithExecs(p, <<gold_sql, pred_sql>>)
        ELSE Bind(CanonRows(g.val), LAMBDA cg :
          IF ~cg.ok THEN WithExecs(cg, <<gold_sql, pred_sql>>)
          ELSE Bind(CanonRows(p.val), LAMBDA cp :
            IF ~cp.ok THEN WithExecs(cp, <<gold_sql, pred_sql>>)
            ELSE WithExecs(Ok(ListEq(cg.val, cp.val)), <<gold_sql, pred_sql>>)))))

\* _compare (lines 146-151): the row comparison runs only when the frame
\* comparison raised
Compare(self, db, gold_sql, pred_sql) ==
    Bind(CompareDf(self, db, gold_sql, pred_sql), LAMBDA d :
      IF d.ok THEN d
      ELSE Bind(CompareRows(self, db, gold_sql, pred_sql), LAMBDA r :
             WithExecs(r, d.execs \o r.execs)))

\* ------------------------------------------------------------------------
\* gold_sql of a test case: a string, a list of strings, or a JSON value
\* that is neither (a number, null)
\* ------------------------------------------------------------------------
GoldStr(q) == [t |-> "str", items |-> <<q>>]
GoldList(qs) == [t |-> "list", items |-> qs]
GoldNumber == [t |-> "int", items |-> <<>>]

\* list(self.gold_sql) whatever its type: a string falls apart into its
\* characters, none of which is a SQL text
CandidatesNoStrTest(gold_sql) ==
    IF gold_sql.t = "int" THEN Raise("TypeError")
    ELSE IF gold_sql.t = "str" THEN Ok([i \in 1..2 |-> "?"])
    ELSE Ok(gold_sql.items)

\* [self.gold_sql] if isinstance(self.gold_sql, str) else list(self.gold_sql)
Candidates(gold_sql) ==
    IF gold_sql.t = "int" THEN Raise("TypeError") ELSE Ok(gold_sql.items)

\* ------------------------------------------------------------------------
\* ExecutableSQLMetric
\* ------------------------------------------------------------------------
\* __init__ (lines 14-22)
ExecutableSQLMetric ==
    [name |-> "executable_sql", threshold |-> One, score |-> NoScore, reason |-> "None"]

\* a measure returns the metric as it leaves it, the SQL texts it executed
\* and whether it raised
Measured(m, execs) == [m |-> m, execs |-> execs, raised |-> FALSE]

\* a measure that lets the error of the backend out
ExecutableMeasureNoTry(self, db, test_case) ==
    LET sql == Strip(test_case.actual_output)
    IN IF sql = ""
       THEN Measured([self EXCEPT !.score = Zero, !.reason = "empty sql"], <<>>)
       ELSE IF BackendExec(db, sql).ok
       THEN Measured([self EXCEPT !.score = One, !.reason = "ok"], <<sql>>)
       ELSE [m |-> self, execs |-> <<sql>>, raised |-> TRUE]

\* a measure that takes a failed execution for a success
ExecutableMeasureBlind(self, db, test_case) ==
    LET sql == Strip(test_case.actual_output)
    IN IF sql = ""
       THEN Measured([self EXCEPT !.score = Zero, !.reason = "empty sql"], <<>>)
       ELSE Measured([self EXCEPT !.score = One, !.reason = "ok"], <<sql>>)

\* measure (lines 24-34); the reason of a failure is f"exec error: {e}"
ExecutableMeasure(self, db, test_case) ==
    LET sql == Strip(test_case.actual_output)
    IN IF sql = ""
       THEN Measured([self EXCEPT !.score = Zero, !.reason = "empty sql"], <<>>)
       ELSE IF BackendExec(db, sql).ok
       THEN Measured([self EXCEPT !.score = One, !.reason = "ok"], <<sql>>)
       ELSE Measured([self EXCEPT !.score = Zero,
                                  !.reason = "exec error: " \o BackendExec(db, sql).val],
                     <<sql>>)

\* ------------------------------------------------------------------------
\* ExecutionAccuracyMetric
\* ------------------------------------------------------------------------
\* __init__ (lines 23-44)
ExecutionAccuracyMetric(gold_sql, ignore_order, null_equal) ==
    [name |-> "execution_accuracy", threshold |-> One, score |-> NoScore,
     reason |-> "None", gold_sql |-> gold_sql,
     ignore_order |-> ignore_order, null_equal |-> null_equal]

\* a loop that goes on after a match
RECURSIVE CandidateLoopNoBreak(_, _, _, _, _, _)
CandidateLoopNoBreak(self, db, cands, pred_sql, i, execs) ==
    IF i > Len(cands) THEN [matched |-> FALSE, execs |-> execs, tried |-> i - 1]
    ELSE Bind(Compare(self, db, cands[i], pred_sql), LAMBDA c :
         Bind(CandidateLoopNoBreak(self, db, cands, pred_sql, i + 1, execs \o c.execs),
              LAMBDA rest : [rest EXCEPT !.matched = rest.matched \/ (c.ok /\ c.val)]))

\* a loop that a failing candidate ends
RECURSIVE CandidateLoopFatal(_, _, _, _, _, _)
CandidateLoopFatal(self, db, cands, pred_sql, i, execs) ==
    IF i > Len(cands) THEN [matched |-> FALSE, execs |-> execs, tried |-> i - 1]
    ELSE Bind(Compare(self, db, cands[i], pred_sql), LAMBDA c :
           IF ~c.ok THEN [matched |-> FALSE, execs |-> execs \o c.execs, tried |-> i]
           ELSE IF c.val
           THEN [matched |-> TRUE, execs |-> execs \o c.execs, tried |-> i]
           ELSE Bind(execs \o c.execs, LAMBDA e :
                  CandidateLoopFatal(self, db, cands, pred_sql, i + 1, e)))

\* the candidate loop (lines 172-181): [matched, execs, tried]; tried is the
\* number of candidates compared
RECURSIVE CandidateLoop(_, _, _, _, _, _)
CandidateLoop(self, db, cands, pred_sql, i, execs) ==
    IF i > Len(cands) THEN [matched |-> FALSE, execs |-> execs, tried |-> i - 1]
    ELSE Bind(Compare(self, db, cands[i], pred_sql), LAMBDA c :
           IF c.ok /\ c.val
           THEN [matched |-> TRUE, execs |-> execs \o c.execs, tried |-> i]
           ELSE Bind(execs \o c.execs, LAMBDA e :
                  CandidateLoop(self, db, cands, pred_sql, i + 1, e)))

\* a measure without the early return on an empty prediction
ExecutionAccuracyMeasureNoGuard(self, db, test_case) ==
    LET pred_sql == Strip(test_case.actual_output)
        cands == Candidates(self.gold_sql)
    IN IF ~cands.ok
       THEN Measured([self EXCEPT !.score = Zero, !.reason = "exec/compare error"], <<>>)
       ELSE Bind(CandidateLoop(self, db, cands.val, pred_sql, 1, <<>>), LAMBDA l :
               IF l.matched
               THEN Measured([self EXCEPT !.score = One, !.reason = "match(candidate)"],
                             l.execs)
               ELSE Measured([self EXCEPT !.score = Zero,
                                          !.reason = "mismatch(all candidates)"], l.execs))

\* a measure whose early return on an empty prediction sets nothing
ExecutionAccuracyMeasureSilent(self, db, test_case) ==
    LET pred_sql == Strip(test_case.actual_output)
        cands == Candidates(self.gold_sql)
    IN IF pred_sql = ""
       THEN Measured(self, <<>>)
       ELSE IF ~cands.ok
       THEN Measured([self EXCEPT !.score = Zero, !.reason = "exec/compare error"], <<>>)
       ELSE Bind(CandidateLoop(self, db, cands.val, pred_sql, 1, <<>>), LAMBDA l :
               IF l.matched
               THEN Measured([self EXCEPT !.score = One, !.reason = "match(candidate)"],
                             l.execs)
               ELSE Measured([self EXCEPT !.score = Zero,
                                          !.reason = "mismatch(all candidates)"], l.execs))

\* measure (lines 155-185)
ExecutionAccuracyMeasure(self, db, test_case) ==
    LET pred_sql == Strip(test_case.actual_output)
        cands == Candidates(self.gold_sql)
    IN IF pred_sql = ""
       THEN Measured([self EXCEPT !.score = Zero, !.reason = "empty sql"], <<>>)
       ELSE IF ~cands.ok
       THEN Measured([self EXCEPT !.score = Zero, !.reason = "exec/compare error"], <<>>)
       ELSE Bind(CandidateLoop(self, db, cands.val, pred_sql, 1, <<>>), LAMBDA l :
               IF l.matched
               THEN Measured([self EXCEPT !.score = One, !.reason = "match(candidate)"],
                             l.execs)
               ELSE Measured([self EXCEPT !.score = Zero,
                                          !.reason = "mismatch(all candidates)"], l.execs))

\* ------------------------------------------------------------------------
\* sqlglot on the SQL texts of the fixture.  A piece of SQL text is
\* [base, up]: its lower-case form and whether it holds upper-case letters.
\* ------------------------------------------------------------------------
Tok(base, up) == [base |-> base, up |-> up]
Lower(tok) == [tok EXCEPT !.up = FALSE]

Kinds == {"tables", "columns", "aggregates", "joins", "predicates", "group_by", "order_by"}

NoTree == [tables |-> {}, idents |-> {}, aggs |-> {}, joins |-> {},
           where |-> {}, having |-> {}, group |-> {}, order |-> {}]

\* sqlglot.parse_one(sql, read=dialect) on the fixture's texts
ParseOne(sql, read) ==
    CASE sql = "qa" ->
           Ok([NoTree EXCEPT !.tables = {Tok("t", FALSE)}, !.idents = {Tok("a", FALSE)}])
      [] sql = "qb" ->
           Ok([NoTree EXCEPT !.tables = {Tok("t", TRUE)}, !.idents = {Tok("a", FALSE)},
                             !.order = {Tok("a", FALSE)}])
      [] sql = "qf" /\ read = "spark" ->
           Ok([NoTree EXCEPT !.tables = {Tok("t", FALSE)},
                             !.idents = {Tok("a", FALSE), Tok("b", FALSE)}])
      [] sql = "qx" ->
           Ok([NoTree EXCEPT !.tables = {Tok("u", FALSE)}, !.idents = {Tok("a", TRUE)},
                             !.where = {Tok("where a = 1", TRUE)}])
      [] OTHER -> Raise("ParseError")

\* _safe_parse (lines 16-17)
SafeParse(sql, dialect) == ParseOne(sql, dialect)

\* sqlglot.transpile(sql, read, write, normalize=True)[0]: the canonical
\* text, a sequence of characters
Transpile(sql, dialect) ==
    CASE sql = "qa" -> Ok(<<"s", "a">>)
      [] sql = "qb" -> Ok(<<"s", "a", "o">>)
      [] sql = "qf" /\ dialect = "spark" -> Ok(<<"s", "f">>)
      [] sql = "qx" -> Ok(<<"s", "x">>)
      [] OTHER -> Raise("ParseError")

\* Python's `a in b` on strings
IsSubstring(a, b) ==
    \E i \in 0..(Len(b) - Len(a)) : SubSeq(b, i + 1, i + Len(a)) = a

\* ------------------------------------------------------------------------
\* SQLSemanticMatchMetric
\* ------------------------------------------------------------------------
\* __init__ (lines 16-25)
SQLSemanticMatchMetric(gold_sql, dialect) ==
    [name |-> "semantic_match_sql", threshold |-> One, score |-> NoScore,
     reason |-> "None", gold_sql |-> gold_sql, dialect |-> dialect]

\* _normalize (lines 27-34)
Normalize(self, sql) ==
    IF Strip(sql) = "" THEN Ok(<<>>) ELSE Transpile(Strip(sql), self.dialect)

\* the loop body without the test that both canonical texts are non-empty
SemanticCandidateAnySubstring(self, cand, pred_norm, best) ==
    Bind(Normalize(self, cand), LAMBDA gold_norm :
       IF ~gold_norm.ok THEN best
       ELSE IF gold_norm.val = pred_norm
       THEN (IF FloatLeq(best, One) THEN One ELSE best)
       ELSE IF IsSubstring(pred_norm, gold_norm.val) \/ IsSubstring(gold_norm.val, pred_norm)
       THEN (IF FloatLeq(best, Half) THEN Half ELSE best)
       ELSE best)

\* the loop body with a candidate's failure ending the search: what was
\* found so far is lost
SemanticCandidateFatal(self, cand, pred_norm, best) ==
    Bind(Normalize(self, cand), LAMBDA gold_norm :
       IF ~gold_norm.ok THEN Zero
       ELSE IF gold_norm.val = pred_norm
       THEN (IF FloatLeq(best, One) THEN One ELSE best)
       ELSE IF pred_norm # <<>> /\ gold_norm.val # <<>>
               /\ (IsSubstring(pred_norm, gold_norm.val)
                   \/ IsSubstring(gold_norm.val, pred_norm))
       THEN (IF FloatLeq(best, Half) THEN Half ELSE best)
       ELSE best)

\* one candidate of the loop (lines 42-49)
SemanticCandidate(self, cand, pred_norm, best) ==
    Bind(Normalize(self, cand), LAMBDA gold_norm :
       IF ~gold_norm.ok THEN best
       ELSE IF gold_norm.val = pred_norm
       THEN (IF FloatLeq(best, One) THEN One ELSE best)
       ELSE IF pred_norm # <<>> /\ gold_norm.val # <<>>
               /\ (IsSubstring(pred_norm, gold_norm.val)
                   \/ IsSubstring(gold_norm.val, pred_norm))
       THEN (IF FloatLeq(best, Half) THEN Half ELSE best)
       ELSE best)

RECURSIVE SemanticLoop(_, _, _, _, _)
SemanticLoop(self, cands, pred_norm, i, best) ==
    IF i > Len(cands) THEN best
    ELSE Bind(SemanticCandidate(self, cands[i], pred_norm, best), LAMBDA b :
            SemanticLoop(self, cands, pred_norm, i + 1, b))

\* measure (lines 36-58)
SemanticMeasure(self, test_case) ==
    Bind(Normalize(self, test_case.actual_output), LAMBDA pred_norm :
    Bind(Candidates(self.gold_sql), LAMBDA cands :
       IF ~pred_norm.ok \/ ~cands.ok
       THEN Measured([self EXCEPT !.score = Zero, !.reason = "parse/normalize error"], <<>>)
       ELSE Bind(SemanticLoop(self, cands.val, pred_norm.val, 1, Zero), LAMBDA best :
               IF best = Zero
               THEN Measured([self EXCEPT !.score = Zero, !.reason = "different"], <<>>)
               ELSE IF best = Half
               THEN Measured([self EXCEPT !.score = Half,
                                          !.reason = "partial(any candidate)"], <<>>)
               ELSE Measured([self EXCEPT !.score = One,
                                          !.reason = "equal(any candidate)"], <<>>))))

\* ------------------------------------------------------------------------
\* ComponentMatchMetric
\* ------------------------------------------------------------------------
\* _collect_components (lines 19-47): tables, columns, aggregates, group_by
\* and order_by are lower-cased; the rendering of a join's ON condition and
\* of WHERE / HAVING is kept as sqlglot emits it
CollectComponents(tree) ==
    [k \in Kinds |->
        CASE k = "tables" -> {Lower(t) : t \in tree.tables}
          [] k = "columns" -> {Lower(t) : t \in tree.idents}
          [] k = "aggregates" -> {Lower(t) : t \in tree.aggs}
          [] k = "joins" -> {Tok(<<Lower(j.kind).base, j.on.base>>, j.on.up) : j \in tree.joins}
          [] k = "predicates" -> tree.where \cup tree.having
          [] k = "group_by" -> {Lower(t) : t \in tree.group}
          [] k = "order_by" -> {Lower(t) : t \in tree.order}]

\* _jaccard without its two tests for empty sets
JaccardUnionOnly(a, b) ==
    IF a \cup b = {} THEN Zero
    ELSE Decimal(Cardinality(a \cap b), Cardinality(a \cup b))

\* _jaccard (lines 49-53)
Jaccard(a, b) ==
    IF a = {} /\ b = {} THEN One
    ELSE IF a = {} \/ b = {} THEN Zero
    ELSE Decimal(Cardinality(a \cap b), Cardinality(a \cup b))

\* one entry of a weights dict
Weight(k, w) == [k |-> k, w |-> w]

\* the default weights in the order the dict literal lists them; __init__
\* line 63
DefaultWeights ==
    <<Weight("tables", Decimal(20, 100)), Weight("columns", Decimal(20, 100)),
      Weight("aggregates", Decimal(15, 100)), Weight("joins", Decimal(20, 100)),
      Weight("predicates", Decimal(15, 100)), Weight("group_by", Decimal(5, 100)),
      Weight("order_by", Decimal(5, 100))>>

\* None and {} are both falsy
NoWeights == <<>>

\* self.threshold = 0.85 (line 64)
ComponentThreshold == Decimal(85, 100)

\* __init__ (lines 59-69); a weights dict is the sequence of its entries in
\* insertion order
ComponentMatchMetric(gold_sql, dialect, weights) ==
    [name |-> "component_match_sql", threshold |-> ComponentThreshold, score |-> NoScore,
     reason |-> "None", gold_sql |-> gold_sql, dialect |-> dialect,
     weights |-> IF weights = NoWeights THEN DefaultWeights ELSE weights,
     details |-> "None"]

\* p.get(k, set())
Get(comps, k) == IF k \in DOMAIN comps THEN comps[k] ELSE {}

\* the keys of a weights dict
WeightKeys(weights) == {weights[i].k : i \in 1..Len(weights)}

\* the loop over self.weights.items() (lines 81-84): total_w += w and
\* acc += s * w, entry after entry
RECURSIVE WeightLoop(_, _, _, _, _, _)
WeightLoop(weights, p, g, i, total_w, acc) ==
    IF i > Len(weights) THEN [total_w |-> total_w, acc |-> acc]
    ELSE Bind(Jaccard(Get(p, weights[i].k), Get(g, weights[i].k)), LAMBDA s :
         Bind(FloatAdd(total_w, weights[i].w), LAMBDA next_w :
         Bind(FloatAdd(acc, FloatMul(s, weights[i].w)), LAMBDA next_acc :
            WeightLoop(weights, p, g, i + 1, next_w, next_acc))))

\* the score against one parsed candidate (lines 79-85): [score, scores]
WeightedScore(weights, p, g) ==
    Bind(WeightLoop(weights, p, g, 1, Zero, Zero), LAMBDA sum :
       [score |-> IF sum.total_w # Zero THEN FloatDiv(sum.acc, sum.total_w) ELSE Zero,
        scores |-> [k \in WeightKeys(weights) |-> Jaccard(Get(p, k), Get(g, k))]])

\* the texts, dialects and weights that the callers below pass
FixtureTexts == {"qa", "qb", "qf", "qx", "bad"}

Dialects == {"none", "spark"}

StaticDialects == {"none", "spark"}

\* run_eval's component_weights
WeightChoices ==
    {NoWeights,
     <<Weight("tables", FloatOfInt(3)), Weight("columns", FloatOfInt(1))>>,
     <<Weight("tables", FloatOfInt(2)), Weight("order_by", FloatOfInt(-1))>>}

\* weights mappings a caller passes: none, one kind, two kinds, a negative
\* weight, weights that sum to zero
StaticWeights ==
    {NoWeights,
     <<Weight("tables", FloatOfInt(1))>>,
     <<Weight("tables", FloatOfInt(3)), Weight("columns", FloatOfInt(1))>>,
     <<Weight("tables", FloatOfInt(2)), Weight("order_by", FloatOfInt(-1))>>,
     <<Weight("tables", FloatOfInt(1)), Weight("columns", FloatOfInt(-1))>>}

\* what a weights argument of None stands for
Supplied(w) == IF w = NoWeights THEN DefaultWeights ELSE w

\* the supplied weights, each multiplied by c
Scaled(w, c) ==
    [i \in 1..Len(Supplied(w)) |->
        Weight(Supplied(w)[i].k, FloatMul(FloatOfInt(c), Supplied(w)[i].w))]

ScaleChoices == {2, 3}

\* Scaled of each of the weights above, computed once
KnownScaled ==
    [key \in StaticWeights \X ScaleChoices |-> Scaled(key[1], key[2]) \o <<>>] @@ <<>>

\* the weights and the components of the texts above, and the scores of each
\* combination of them, computed once
KnownWeights ==
    {Supplied(w) : w \in WeightChoices \cup StaticWeights}
        \cup {KnownScaled[key] : key \in DOMAIN KnownScaled}

KnownComps ==
    {CollectComponents(ParseOne(t[1], t[2]).val) :
        t \in {u \in FixtureTexts \X Dialects : ParseOne(u[1], u[2]).ok}}

KnownScores ==
    [key \in KnownWeights \X KnownComps \X KnownComps |->
        WeightedScore(key[1], key[2], key[3])] @@ <<>>

\* WeightedScore(self.weights, p, g), looked up where it is known
CandidateScore(self, p, g) ==
    IF self.weights \in KnownWeights /\ p \in KnownComps /\ g \in KnownComps
    THEN KnownScores[<<self.weights, p, g>>]
    ELSE WeightedScore(self.weights, p, g)

NoDetail == [none |-> TRUE, scores |-> <<>>]

\* the candidate loop (lines 78-88): [best_score, best_detail]
RECURSIVE ComponentLoop(_, _, _, _, _)
ComponentLoop(self, p, cands, i, best) ==
    IF i > Len(cands) THEN best
    ELSE Bind(SafeParse(cands[i], self.dialect), LAMBDA gold_t :
           IF ~gold_t.ok THEN ComponentLoop(self, p, cands, i + 1, best)
           ELSE Bind(CollectComponents(gold_t.val), LAMBDA g :
                Bind(CandidateScore(self, p, g), LAMBDA c :
                   IF FloatLt(best.best_score, c.score)
                   THEN Bind([best_score |-> c.score,
                              best_detail |-> [none |-> FALSE, scores |-> c.scores]],
                             LAMBDA b : ComponentLoop(self, p, cands, i + 1, b))
                   ELSE ComponentLoop(self, p, cands, i + 1, best))))

\* measure (lines 71-92)
ComponentMeasure(self, test_case) ==
    Bind(SafeParse(Strip(test_case.actual_output), self.dialect), LAMBDA pred_t :
    Bind(Candidates(self.gold_sql), LAMBDA cands :
       IF ~pred_t.ok \/ ~cands.ok
       THEN Measured([self EXCEPT !.score = Zero, !.reason = "parse/compare error",
                                  !.details = [error |-> IF ~pred_t.ok THEN pred_t.val
                                                         ELSE cands.val]], <<>>)
       ELSE Bind(CollectComponents(pred_t.val), LAMBDA p :
            Bind(ComponentLoop(self, p, cands.val, 1,
                               [best_score |-> Zero, best_detail |-> NoDetail]),
                 LAMBDA best :
                    Measured([self EXCEPT !.score = best.best_score,
                                          !.reason = "weighted jaccard",
                                          !.details = [per_component |-> best.best_detail]],
                             <<>>)))))

\* ------------------------------------------------------------------------
\* State of one call of run_eval (runner.py lines 29-86)
\* ------------------------------------------------------------------------
VARIABLES
    tcs,                \* the test cases loaded from testcases_path
    preds_list,         \* the predictions loaded from predictions_path
    db,                 \* what the backend's engine answers to each SQL text
    dialect,            \* run_eval's dialect argument
    component_weights,  \* run_eval's component_weights argument
    threshold_override, \* thresholds set on metrics after construction (none in run_eval)
    pc,                 \* "loop", "measure", "report", "done", "aborted"
    idx,                \* number of test cases the loop has finished
    case,               \* the LLMTestCase of the current test case
    metrics,            \* the metric objects of the current test case
    mi,                 \* index of the next metric to measure
    all_results,        \* the case reports so far
    success_all,        \* the count of cases that passed
    report,             \* what run_eval returned
    log,                \* history: one entry per measure() call
    prev,               \* the report of the previous run, if any
    calls,              \* direct calls of _jaccard: arguments and result
    run_options         \* keyword arguments of run_eval besides dialect and
                        \* component_weights

vars == <<tcs, preds_list, db, backend, dialect, component_weights, threshold_override,
          pc, idx, case, metrics, mi, all_results, success_all, report, log, prev,
          calls, run_options>>

\* what no step of run_eval changes
inputs == <<tcs, preds_list, db, backend, calls, run_options>>
config == <<dialect, component_weights, threshold_override>>

\* ------------------------------------------------------------------------
\* Inputs
\* ------------------------------------------------------------------------
CaseId(i) == CASE i = 1 -> "t1" [] i = 2 -> "t2" [] i = 3 -> "t3" [] OTHER -> "t4"

\* the key gold_sql is absent from the test case
GoldMissing == [t |-> "missing", items |-> <<>>]

\* pred_sql of a prediction: a string, null, or another JSON value, which
\* is truthy (5, true, ["qa"]) or falsy (0, false, [], {})
PredStr(q) == [t |-> "str", s |-> q]
PredNull == [t |-> "null", s |-> ""]
PredNumber == [t |-> "int", s |-> ""]
PredZero == [t |-> "falsy", s |-> ""]

\* the fixture database
FixtureDb ==
    [q \in {"qa", "qb", "qf", "qx"} |->
        CASE q = "qa" -> Ok(<< <<PyInt(1)>>, <<PyInt(2)>> >>)
          [] q = "qb" -> Ok(<< <<PyInt(2)>>, <<PyInt(1)>> >>)
          [] q = "qf" -> Ok(<< <<PyFloat(Scale)>>, <<PyFloat(2 * Scale)>> >>)
          [] q = "qx" -> Ok(<< <<PyInt(2)>> >>)]

NoOverride == [m \in {} |-> One]

\* preds = {p["id"]: p["pred_sql"] for p in preds_list} (line 39)
RECURSIVE PredsDict(_, _)
PredsDict(list, n) ==
    IF n = 0 THEN [i \in {} |-> PredNull]
    ELSE Bind(PredsDict(list, n - 1), LAMBDA d :
            [i \in DOMAIN d \cup {list[n].id} |->
                IF i = list[n].id THEN list[n].pred_sql ELSE d[i]])

\* preds[qid].strip(): no default for a missing id or a null pred_sql
PredSqlNoDefault(preds, qid) ==
    IF qid \notin DOMAIN preds THEN Raise("KeyError")
    ELSE Bind(preds[qid], LAMBDA v :
       CASE v.t = "str" -> Ok(Strip(v.s))
         [] OTHER -> Raise("AttributeError"))

\* (preds.get(qid, "") or "").strip() (line 48): `or ""` replaces every
\* falsy value, a string or not, by ""; strip() of a truthy value that is
\* no string raises
PredSql(preds, qid) ==
    Bind(IF qid \in DOMAIN preds THEN preds[qid] ELSE PredStr(""), LAMBDA v :
       CASE v.t \in {"null", "falsy"} -> Ok("")
         [] v.t = "str" -> Ok(Strip(v.s))
         [] OTHER -> Raise("AttributeError"))

\* ------------------------------------------------------------------------
\* run_eval
\* ------------------------------------------------------------------------
NoReport == [returned |-> FALSE, summary |-> [passed_all |-> 0, total |-> 0], results |-> <<>>]

NoCase == [input |-> "", actual_output |-> ""]

\* the threshold a metric is constructed with (self.threshold, set in
\* __init__): threshold_override is empty for the shipped defaults
Toggled(m) ==
    IF m.name \in DOMAIN threshold_override
    THEN [m EXCEPT !.threshold = threshold_override[m.name]]
    ELSE m

\* the list with the two required metrics in the other order
BuildMetricsSwapped(gold_sql) ==
    << ExecutionAccuracyMetric(gold_sql, TRUE, TRUE),
       ExecutableSQLMetric,
       SQLSemanticMatchMetric(gold_sql, dialect),
       ComponentMatchMetric(gold_sql, dialect, component_weights) >>

\* the metrics of one test case, in the order of the list (lines 51-56)
BuildMetrics(gold_sql) ==
    << ExecutableSQLMetric,
       ExecutionAccuracyMetric(gold_sql, TRUE, TRUE),
       SQLSemanticMatchMetric(gold_sql, dialect),
       ComponentMatchMetric(gold_sql, dialect, component_weights) >>

\* lines 46-56: read the test case, join the prediction, build the metrics.
\* A missing key or a pred_sql without strip() raises out of run_eval.
BeginCase ==
    /\ pc = "loop"
    /\ idx < Len(tcs)
    /\ \E tc \in {tcs[idx + 1]} :
       \E preds \in {PredsDict(preds_list, Len(preds_list))} :
       \E pred_sql \in {PredSql(preds, tc.id)} :
          IF tc.gold_sql.t = "missing" \/ ~pred_sql.ok
          THEN /\ pc' = "aborted"
               /\ UNCHANGED <<case, metrics, mi>>
          ELSE /\ case' = [input |-> tc.id, actual_output |-> pred_sql.val]
               /\ metrics' = [k \in 1..4 |-> Toggled(BuildMetrics(tc.gold_sql)[k])]
               /\ mi' = 1
               /\ pc' = "measure"
    /\ UNCHANGED <<inputs, config, idx, all_results, success_all, report, log, prev>>

\* the connections opened so far in the run
Opened(l) == Cardinality(UNION {{l[i].conns[k] : k \in 1..Len(l[i].conns)} : i \in 1..Len(l)})

\* SQLAlchemyBackend.execute (lines 66-79) opens a connection for the call
\* (duckdb.connect, or engine.connect) and closes it on return;
\* SparkBackend._conn does the same.  The connections that serve the
\* executions execs, numbered in the order they are opened.
Connect(opened, execs) == [k \in 1..Len(execs) |-> opened + k]

\* one iteration of `for m in metrics: m.measure(case)` (lines 58-61): an
\* exception of measure() is not caught here
MeasureStep(r) ==
    /\ IF r.raised
       THEN /\ pc' = "aborted"
            /\ UNCHANGED <<metrics, mi>>
       ELSE /\ metrics' = [metrics EXCEPT ![mi] = r.m]
            /\ mi' = mi + 1
            /\ pc' = IF mi = Len(metrics) THEN "report" ELSE "measure"
    /\ log' = Append(log, [case |-> idx + 1, metric |-> metrics[mi].name,
                           execs |-> r.execs, raised |-> r.raised,
                           conns |-> Connect(Opened(log), r.execs)])
    /\ UNCHANGED <<inputs, config, idx, case, all_results, success_all, report, prev>>

MeasureExecutable ==
    /\ pc = "measure"
    /\ metrics[mi].name = "executable_sql"
    /\ \E r \in {ExecutableMeasure(metrics[mi], db, case)} : MeasureStep(r)

MeasureExecutionAccuracy ==
    /\ pc = "measure"
    /\ metrics[mi].name = "execution_accuracy"
    /\ \E r \in {ExecutionAccuracyMeasure(metrics[mi], db, case)} : MeasureStep(r)

MeasureSemantic ==
    /\ pc = "measure"
    /\ metrics[mi].name = "semantic_match_sql"
    /\ \E r \in {SemanticMeasure(metrics[mi], case)} : MeasureStep(r)

MeasureComponent ==
    /\ pc = "measure"
    /\ metrics[mi].name = "component_match_sql"
    /\ \E r \in {ComponentMeasure(metrics[mi], case)} : MeasureStep(r)

\* ok = (score is not None and score >= thr) (line 70)
PassOk(score, thr) == score # NoScore /\ FloatLeq(thr, score)

\* pass_map (lines 64-71); pass_map.get(name, False)
PassMap(ms) ==
    [name \in {ms[k].name : k \in 1..Len(ms)} |->
        LET k == CHOOSE j \in 1..Len(ms) :
                    ms[j].name = name /\ \A i \in (j + 1)..Len(ms) : ms[i].name # name
        IN PassOk(ms[k].score, ms[k].threshold)]

PassGet(pass_map, name) == IF name \in DOMAIN pass_map THEN pass_map[name] ELSE FALSE

\* a verdict that one required metric alone can pass
MustOkEither(pass_map) ==
    PassGet(pass_map, "executable_sql") \/ PassGet(pass_map, "execution_accuracy")

\* a verdict gated by every metric of the case
MustOkAll(pass_map) == \A name \in DOMAIN pass_map : pass_map[name]

\* must_ok (line 77)
MustOk(pass_map) ==
    PassGet(pass_map, "executable_sql") /\ PassGet(pass_map, "execution_accuracy")

\* lines 63-82: the case report and the verdict
ReportCase ==
    /\ pc = "report"
    /\ \E tc \in {tcs[idx + 1]} :
       \E out \in {[id |-> tc.id, question |-> tc.id, gold_sql |-> tc.gold_sql,
                    pred_sql |-> case.actual_output,
                    metrics |-> [k \in 1..Len(metrics) |->
                                    [name |-> metrics[k].name, score |-> metrics[k].score,
                                     threshold |-> metrics[k].threshold,
                                     reason |-> metrics[k].reason]],
                    passed_all |-> MustOk(PassMap(metrics))]} :
          /\ all_results' = Append(all_results, out)
          /\ success_all' = IF out.passed_all THEN success_all + 1 ELSE success_all
    /\ idx' = idx + 1
    /\ pc' = "loop"
    /\ UNCHANGED <<inputs, config, case, metrics, mi, report, log, prev>>

\* a summary that counts every case report as passed
FinishCountingAll ==
    /\ pc = "loop"
    /\ idx = Len(tcs)
    /\ report' = [returned |-> TRUE,
                  summary |-> [passed_all |-> Len(all_results), total |-> Len(all_results)],
                  results |-> all_results]
    /\ pc' = "done"
    /\ UNCHANGED <<inputs, config, idx, case, metrics, mi, all_results, success_all, log, prev>>

\* lines 84-86
Finish ==
    /\ pc = "loop"
    /\ idx = Len(tcs)
    /\ report' = [returned |-> TRUE,
                  summary |-> [passed_all |-> success_all, total |-> Len(all_results)],
                  results |-> all_results]
    /\ pc' = "done"
    /\ UNCHANGED <<inputs, config, idx, case, metrics, mi, all_results, success_all, log, prev>>

\* ------------------------------------------------------------------------
\* Specification of one run over the fixture
\* ------------------------------------------------------------------------
NoEntry == [t |-> "absent", s |-> ""]

GoldChoices == {GoldStr("qa"), GoldList(<<"bad", "qb">>), GoldNumber, GoldMissing}

PredChoices == {NoEntry, PredNull, PredStr(" "), PredStr(" qa "), PredStr("qx"),
                PredStr("bad"), PredNumber, PredZero}

\* the entries of the predictions file: one per test case that has one
RECURSIVE Entries(_, _)
Entries(choice, n) ==
    IF n = 0 THEN <<>>
    ELSE IF choice[n] = NoEntry THEN Entries(choice, n - 1)
    ELSE Append(Entries(choice, n - 1), [id |-> CaseId(n), pred_sql |-> choice[n]])

\* run_eval(testcases_path, predictions_path, dialect=None,
\* component_weights=None) (line 29) has no other parameter: a call with
\* another keyword argument raises TypeError before the body runs
NoOptions == [o \in {} |-> TRUE]

AcceptsOptions(options) == DOMAIN options = {}

\* the keyword arguments a caller configures the comparison with
OptionChoices ==
    {NoOptions,
     [o \in {"ignore_order"} |-> FALSE],
     [o \in {"ignore_order", "null_equal"} |-> o = "ignore_order"]}

RejectedCall ==
    /\ pc = "rejected"
    /\ idx = 0
    /\ case = NoCase
    /\ metrics = <<>>
    /\ mi = 0
    /\ all_results = <<>>
    /\ success_all = 0
    /\ report = NoReport
    /\ log = <<>>

StartOfRun ==
    /\ pc = "loop"
    /\ idx = 0
    /\ case = NoCase
    /\ metrics = <<>>
    /\ mi = 0
    /\ all_results = <<>>
    /\ success_all = 0
    /\ report = NoReport
    /\ log = <<>>

Init ==
    /\ run_options \in OptionChoices
    /\ \E n \in 0..(IF AcceptsOptions(run_options) THEN MaxCases ELSE RejectedCases) :
         \E g \in [1..n -> GoldChoices], c \in [1..n -> PredChoices] :
            /\ tcs = [i \in 1..n |-> [id |-> CaseId(i), gold_sql |-> g[i]]]
            /\ preds_list = Entries(c, n)
    /\ db = FixtureDb
    /\ backend = SQLAlchemyBackend
    /\ calls = <<>>
    \* the texts of GoldChoices and PredChoices parse alike under every
    \* dialect; the dialect varies in the runs of SpecTwin and in
    \* SpecStatic
    /\ dialect = "none"
    /\ component_weights \in WeightChoices
    /\ threshold_override = NoOverride
    /\ prev = NoReport
    /\ IF AcceptsOptions(run_options) THEN StartOfRun ELSE RejectedCall

Next ==
    \/ BeginCase
    \/ MeasureExecutable
    \/ MeasureExecutionAccuracy
    \/ MeasureSemantic
    \/ MeasureComponent
    \/ ReportCase
    \/ Finish

Spec == Init /\ [][Next]_vars

\* ------------------------------------------------------------------------
\* Properties of run_eval
\* ------------------------------------------------------------------------
MetricOrder ==
    <<"executable_sql", "execution_accuracy", "semantic_match_sql", "component_match_sql">>

\* the outcome of the named metric in a case report passes at threshold 1.0
PassesAtOne(r, name) ==
    \E k \in 1..Len(r.metrics) :
        /\ r.metrics[k].name = name
        /\ r.metrics[k].threshold = One
        /\ r.metrics[k].score # NoScore
        /\ FloatLeq(One, r.metrics[k].score)

\* C1: in every case report produced by run_eval, passed_all is true if and
\* only if the executable_sql outcome and the execution_accuracy outcome
\* each have a non-null score of at least their threshold 1.0; a null score
\* does not pass.
C1_PassedAllIffRequired ==
    /\ \A i \in 1..Len(all_results) :
          all_results[i].passed_all <=>
             (PassesAtOne(all_results[i], "executable_sql")
              /\ PassesAtOne(all_results[i], "execution_accuracy"))
    /\ ~PassOk(NoScore, One)

\* a report with a case that passed and a case that is executable but not
\* accurate, which failed
C1_Witness ==
    \E i, j \in 1..Len(all_results) :
        /\ all_results[i].passed_all
        /\ ~all_results[j].passed_all
        /\ PassesAtOne(all_results[j], "executable_sql")

\* C3: the orchestrator is fail-soft: when an exception is raised while
\* scoring test case i, every test case after i is still scored and appears
\* in the report, and the run is not aborted.
C3_FailSoft ==
    /\ pc # "aborted"
    /\ pc = "done" => \A i \in 1..Len(tcs) :
                         \E k \in 1..Len(report.results) : report.results[k].id = tcs[i].id

\* the error of a metric's own computation, from the case report alone
ErrorOf(r, name) ==
    CASE name = "executable_sql" ->
            r.pred_sql # "" /\ ~BackendExec(db, r.pred_sql).ok
      [] name = "execution_accuracy" ->
            r.pred_sql # "" /\ ~Candidates(r.gold_sql).ok
      [] name = "semantic_match_sql" ->
            \/ ~Candidates(r.gold_sql).ok
            \/ (r.pred_sql # "" /\ ~Transpile(r.pred_sql, dialect).ok)
      [] name = "component_match_sql" ->
            ~Candidates(r.gold_sql).ok \/ ~SafeParse(r.pred_sql, dialect).ok

\* C4: the measure() of every metric returns normally, and an error raised
\* while it computes its score (backend execution error, parse error,
\* malformed gold_sql) leaves score 0.0 and a reason; so once a case is
\* being measured, all of its metrics are measured and it is reported.
C4_MeasureNeverRaises ==
    /\ \A n \in 1..Len(log) : ~log[n].raised
    /\ pc = "aborted" => mi = 0 \/ mi = Len(metrics) + 1
    /\ pc = "report" => \A k \in 1..Len(metrics) :
                           metrics[k].score # NoScore /\ metrics[k].reason # "None"
    /\ \A i \in 1..Len(all_results) :
          /\ Len(all_results[i].metrics) = 4
          /\ \A k \in 1..4 :
                LET o == all_results[i].metrics[k]
                IN /\ o.score # NoScore
                   /\ o.reason # "None"
                   /\ ErrorOf(all_results[i], o.name) => o.score = Zero

\* a reported case whose prediction fails on the backend and whose gold_sql
\* is malformed: every metric met an error
C4_Witness ==
    \E i \in 1..Len(all_results) :
        /\ all_results[i].pred_sql = "bad"
        /\ all_results[i].gold_sql = GoldNumber
        /\ \A k \in 1..4 : ErrorOf(all_results[i], all_results[i].metrics[k].name)

\* C5: within a case the four metrics are measured one after another in the
\* order executable_sql, execution_accuracy, semantic_match_sql,
\* component_match_sql, whatever the earlier ones scored; the case report
\* lists these four outcomes in that order; and the measurements of a case
\* are complete before those of the next case begin.
C5_FixedMetricOrder ==
    /\ \A n \in 1..Len(log) :
          /\ log[n].metric = MetricOrder[((n - 1) % 4) + 1]
          /\ log[n].case = ((n - 1) \div 4) + 1
    /\ \A i \in 1..Len(all_results) :
          /\ Len(all_results[i].metrics) = 4
          /\ \A k \in 1..4 : all_results[i].metrics[k].name = MetricOrder[k]
          /\ Len(log) >= 4 * i
    /\ pc = "measure" => Len(log) = 4 * idx + (mi - 1)
    /\ pc \in {"loop", "report", "done"} => Len(log) = 4 * Len(all_results) + (IF pc = "report" THEN 4 ELSE 0)

\* two reported cases, the first of them with executable_sql at 0.0
C5_Witness ==
    /\ Len(all_results) = 2
    /\ Len(log) = 8
    /\ all_results[1].metrics[1].score = Zero

\* C6: after measure(), whatever the prediction, the gold candidates, the
\* backend and the component_weights mapping, the score of each of the four
\* metrics lies in the closed interval [0,1].
C6_ScoresInUnitInterval ==
    \A i \in 1..Len(all_results) : \A k \in 1..Len(all_results[i].metrics) :
        LET o == all_results[i].metrics[k]
        IN o.score # NoScore => FloatLeq(Zero, o.score) /\ FloatLeq(o.score, One)

\* ------------------------------------------------------------------------
\* Specification of two runs of run_eval over the same test cases,
\* predictions and backend.  The second run may differ in the dialect and
\* component_weights arguments, which change the scores of
\* semantic_match_sql and component_match_sql, and in the thresholds these
\* two metrics are constructed with; the first run has the thresholds of
\* the shipped constructors.
\* ------------------------------------------------------------------------
TwinGolds == {GoldStr("qa"), GoldList(<<"bad", "qb">>)}

TwinPreds == {PredStr(" qa "), PredStr("qx"), PredStr("bad")}

ThresholdChoices ==
    {NoOverride,
     [m \in {"semantic_match_sql"} |-> Half],
     [m \in {"component_match_sql"} |-> One]}

InitTwin ==
    /\ \E n \in 0..MaxCases :
         \E g \in [1..n -> TwinGolds], c \in [1..n -> TwinPreds] :
            /\ tcs = [i \in 1..n |-> [id |-> CaseId(i), gold_sql |-> g[i]]]
            /\ preds_list = Entries(c, n)
    /\ db = FixtureDb
    /\ backend = SQLAlchemyBackend
    /\ calls = <<>>
    /\ dialect \in Dialects
    /\ component_weights \in WeightChoices
    /\ threshold_override = NoOverride
    /\ run_options = NoOptions
    /\ prev = NoReport
    /\ StartOfRun

\* run_eval is called again (line 29) once the first report is returned
Rerun ==
    /\ pc = "done"
    /\ ~prev.returned
    /\ prev' = report
    /\ dialect' \in Dialects
    /\ component_weights' \in WeightChoices
    /\ threshold_override' \in ThresholdChoices
    /\ pc' = "loop"
    /\ idx' = 0
    /\ case' = NoCase
    /\ metrics' = <<>>
    /\ mi' = 0
    /\ all_results' = <<>>
    /\ success_all' = 0
    /\ report' = NoReport
    /\ log' = <<>>
    /\ UNCHANGED inputs

NextTwin == Next \/ Rerun

SpecTwin == InitTwin /\ [][NextTwin]_vars

\* the pass/fail of an outcome of a case report (line 70)
OutcomeOk(o) == PassOk(o.score, o.threshold)

\* C2: verdict independence: when two runs over the same test cases,
\* predictions and backend differ only in the thresholds of Semantic Match
\* and Component Match or in the scores these two return, every case has
\* the same passed_all in both reports and the summary counts the same
\* number of passed cases.
C2_VerdictIndependence ==
    (pc = "done" /\ prev.returned) =>
        /\ Len(report.results) = Len(prev.results)
        /\ \A i \in 1..Len(report.results) :
              /\ report.results[i].id = prev.results[i].id
              /\ report.results[i].passed_all = prev.results[i].passed_all
        /\ report.summary = prev.summary

\* both runs are done, and a case that passed has an optional metric that
\* passes in one report and fails in the other
C2_Witness ==
    /\ pc = "done"
    /\ prev.returned
    /\ \E i \in 1..Len(report.results) : \E k \in {3, 4} :
          /\ report.results[i].passed_all
          /\ OutcomeOk(report.results[i].metrics[k]) # OutcomeOk(prev.results[i].metrics[k])
          /\ report.results[i].metrics[k].score # prev.results[i].metrics[k].score

\* ------------------------------------------------------------------------
\* Specification of metrics used directly, as tests/test_metrics.py uses
\* them: the metrics are built by the caller and measured in turn
\* ------------------------------------------------------------------------
DirectStart(ms, pred) ==
    /\ calls = <<>>
    /\ run_options = NoOptions
    /\ tcs = <<>>
    /\ preds_list = <<>>
    /\ dialect = "none"
    /\ component_weights = NoWeights
    /\ threshold_override = NoOverride
    /\ prev = NoReport
    /\ pc = "measure"
    /\ idx = 0
    /\ case = [input |-> "", actual_output |-> pred]
    /\ metrics = ms
    /\ mi = 1
    /\ all_results = <<>>
    /\ success_all = 0
    /\ report = NoReport
    /\ log = <<>>

\* one ExecutionAccuracyMetric over the fixture, gold_sql a string or a list
InitCandidates ==
    /\ db = FixtureDb
    /\ backend = SQLAlchemyBackend
    /\ \E gold \in {GoldStr(q) : q \in FixtureTexts}
                    \cup {GoldList(l) : l \in SeqsUpTo(FixtureTexts, MaxCands)},
          pred \in FixtureTexts \cup {"", " qa "},
          io \in BOOLEAN, ne \in BOOLEAN :
            DirectStart(<<ExecutionAccuracyMetric(gold, io, ne)>>, pred)

\* results of up to MaxRows rows, of one column or of two
Cells == {PyInt(1), PyInt(2), PyFloat(Scale), None}

Rows1 == {<<c>> : c \in Cells}

Rows2 == {<<PyInt(1), PyInt(1)>>, <<PyInt(1), None>>, <<PyInt(2), PyStr("a")>>}

Results == SeqsUpTo(Rows1, MaxRows) \cup SeqsUpTo(Rows2, MaxRows)

Perms(n) == {f \in [1..n -> 1..n] : \A i, j \in 1..n : f[i] = f[j] => i = j}

Permute(rows, f) == [i \in 1..Len(rows) |-> rows[f[i]]]

\* the predicted results tried against a gold result: those of its shape,
\* and every result of at most one row
PredResults(G) ==
    {P \in Results : Len(P) <= 1 \/ (Len(P) = Len(G) /\ Width(P) = Width(G))}

\* two ExecutionAccuracyMetric objects with the same settings and the same
\* prediction "p": the gold of the second returns the rows of the first's
\* in another order
InitResults ==
    \E G \in Results :
    \E f \in Perms(Len(G)), P \in PredResults(G), io \in BOOLEAN, ne \in BOOLEAN :
        /\ db = [q \in {"g", "gp", "p"} |->
                    CASE q = "g" -> Ok(G) [] q = "gp" -> Ok(Permute(G, f)) [] q = "p" -> Ok(P)]
        /\ backend = SQLAlchemyBackend
        /\ DirectStart(<<ExecutionAccuracyMetric(GoldStr("g"), io, ne),
                         ExecutionAccuracyMetric(GoldStr("gp"), io, ne)>>, "p")

\* one ExecutionAccuracyMetric whose prediction "gp" returns the rows of
\* the gold "g" in another order, on each kind of backend object
InitReordered ==
    \E G \in Results :
    \E f \in Perms(Len(G)), io \in BOOLEAN, ne \in BOOLEAN,
       b \in {SQLAlchemyBackend, NoTableBackend, SparkBackend} :
        /\ db = [q \in {"g", "gp"} |-> IF q = "g" THEN Ok(G) ELSE Ok(Permute(G, f))]
        /\ backend = b
        /\ DirectStart(<<ExecutionAccuracyMetric(GoldStr("g"), io, ne)>>, "gp")

\* the digits of a float after the sixth decimal place
LateDigits == 0..(Unit - 1)

\* the first six decimal places: 0.0, 1.0, and 0.007812 and 0.023437, which
\* with the late digit 5 are the doubles 2^-7 and 3 * 2^-7
SixDigits == {0, 7812, 23437, 1000000}

\* a float of the given sign, six-digit part and later digits
FloatOf(sign, six, late) == PyFloat(sign * (six * Unit + late))

\* default settings; gold "g" and prediction "p" return the same two rows
\* but for the late digits of one float
InitPrecision ==
    \E sign \in {1, -1}, six \in SixDigits, lg \in LateDigits, lp \in LateDigits :
        /\ db = [q \in {"g", "p"} |->
                    Ok(<< <<FloatOf(sign, six, IF q = "g" THEN lg ELSE lp)>>, <<PyInt(2)>> >>)]
        /\ backend = SQLAlchemyBackend
        /\ DirectStart(<<ExecutionAccuracyMetric(GoldStr("g"), TRUE, TRUE)>>, "p")

\* a result with every None replaced by NaN
WithNaN(rows) ==
    [i \in 1..Len(rows) |->
        [j \in 1..Len(rows[i]) |-> IF rows[i][j] = None THEN NaN ELSE rows[i][j]]]

\* default settings; the prediction "p" returns the gold's result with NaN
\* where the gold "g" has None
InitNulls ==
    \E G \in Results :
        /\ \E i \in 1..Len(G) : \E j \in 1..Len(G[i]) : G[i][j] = None
        /\ db = [q \in {"g", "p"} |-> IF q = "g" THEN Ok(G) ELSE Ok(WithNaN(G))]
        /\ backend = SQLAlchemyBackend
        /\ DirectStart(<<ExecutionAccuracyMetric(GoldStr("g"), TRUE, TRUE)>>, "p")

\* the names an engine gives the column of a one-column result
ColumnNames == {<<"a">>, <<"x">>}

\* one ExecutionAccuracyMetric on SparkBackend: the results of the gold "g"
\* and of the prediction "p" have one column, named by the engine
InitNamed ==
    \E G \in SeqsUpTo(Rows1, MaxRows), P \in SeqsUpTo(Rows1, MaxRows),
       cg \in ColumnNames, cp \in ColumnNames, io \in BOOLEAN :
        /\ db = [q \in {"g", "p"} |-> IF q = "g" THEN Named(cg, G) ELSE Named(cp, P)]
        /\ backend = SparkBackend
        /\ DirectStart(<<ExecutionAccuracyMetric(GoldStr("g"), io, TRUE)>>, "p")

InitDirect ==
    \/ InitCandidates \/ InitResults \/ InitReordered \/ InitPrecision \/ InitNulls
    \/ InitNamed

NextDirect == MeasureExecutionAccuracy

SpecDirect == InitDirect /\ [][NextDirect]_vars

\* ------------------------------------------------------------------------
\* Properties of ExecutionAccuracyMetric
\* ------------------------------------------------------------------------
\* the metrics measured so far, and what a measured metric was given
MeasuredMetrics == {k \in 1..Len(metrics) : k < mi /\ metrics[k].name = "execution_accuracy"}

PredOf == Strip(case.actual_output)

CandsOf(k) == Candidates(metrics[k].gold_sql).val

\* what _compare returns on each candidate of metric k, in input order
RECURSIVE VerdictsUpTo(_, _)
VerdictsUpTo(k, j) ==
    IF j = 0 THEN <<>>
    ELSE Bind(VerdictsUpTo(k, j - 1), LAMBDA vs :
            Append(vs, Compare(metrics[k], db, CandsOf(k)[j], PredOf)))

Verdicts(k) == VerdictsUpTo(k, Len(CandsOf(k)))

\* candidate j is judged accurate
Accurate(vs, j) == vs[j].ok /\ vs[j].val

\* the SQL texts the comparisons of candidates 1..j send to the backend
RECURSIVE ExecsUpTo(_, _)
ExecsUpTo(vs, j) == IF j = 0 THEN <<>> ELSE ExecsUpTo(vs, j - 1) \o vs[j].execs

\* the first candidate that matches, or the number of candidates if none
LastTried(vs) ==
    IF \E j \in 1..Len(vs) : Accurate(vs, j)
    THEN CHOOSE j \in 1..Len(vs) : Accurate(vs, j) /\ \A i \in 1..(j - 1) : ~Accurate(vs, i)
    ELSE Len(vs)

\* C7: Execution Accuracy scores 1.0 if and only if the comparison judges
\* the predicted result accurate against at least one gold candidate, and
\* 0.0 otherwise; the candidates are tried in input order and the first
\* match ends the loop: what the metric sent to the backend is what the
\* comparisons of the candidates up to the first match send, and nothing of
\* a later candidate.
C7_FirstMatchShortCircuits ==
    \A k \in MeasuredMetrics : \A vs \in {Verdicts(k)} :
        /\ metrics[k].score \in {Zero, One}
        /\ metrics[k].score = One <=> \E j \in 1..Len(vs) : Accurate(vs, j)
        /\ PredOf # "" => log[k].execs = ExecsUpTo(vs, LastTried(vs))

\* the first candidate matches and a second one, of another text, is
\* never sent to the backend
C7_Witness ==
    \E k \in MeasuredMetrics :
        /\ Len(CandsOf(k)) >= 2
        /\ Accurate(Verdicts(k), 1)
        /\ metrics[k].score = One
        /\ CandsOf(k)[2] \notin {CandsOf(k)[1], PredOf}
        /\ \A n \in 1..Len(log[k].execs) : log[k].execs[n] # CandsOf(k)[2]

\* the execution of candidate j itself fails, in _fetch_df and in _fetch_rows
GoldFails(k, j) ==
    ~FetchDf(db, CandsOf(k)[j]).ok /\ ~FetchRows(db, CandsOf(k)[j]).ok

\* C8: a gold candidate whose own execution fails under both strategies is
\* skipped and the candidates after it are still tried: when a later
\* candidate matches the score is 1.0, when none matches every candidate
\* was sent to the backend, and the outcome is never the error outcome.
C8_FailingCandidateSkipped ==
    \A k \in MeasuredMetrics :
        (PredOf # "" /\ \E i \in 1..Len(CandsOf(k)) : GoldFails(k, i)) =>
          \A vs \in {Verdicts(k)} :
            /\ metrics[k].reason \in {"match(candidate)", "mismatch(all candidates)"}
            /\ (\E i, j \in 1..Len(vs) : i < j /\ GoldFails(k, i) /\ Accurate(vs, j))
                  => metrics[k].score = One /\ metrics[k].reason = "match(candidate)"
            /\ metrics[k].score # One =>
                  \A i \in 1..Len(CandsOf(k)) :
                     \E n \in 1..Len(log[k].execs) : log[k].execs[n] = CandsOf(k)[i]

\* the first candidate fails on the backend, a later one matches, and the
\* score is 1.0
C8_Witness ==
    \E k \in MeasuredMetrics :
        /\ Len(CandsOf(k)) >= 2
        /\ GoldFails(k, 1)
        /\ Accurate(Verdicts(k), 2)
        /\ metrics[k].score = One

\* the verdict of each strategy alone on candidate j of metric k
TabularMatch(k, j) ==
    LET c == CompareDf(metrics[k], db, CandsOf(k)[j], PredOf) IN c.ok /\ c.val

RowsMatch(k, j) ==
    LET c == CompareRows(metrics[k], db, CandsOf(k)[j], PredOf) IN c.ok /\ c.val

\* C9: a predicted result is judged accurate against a gold candidate if it
\* matches under either strategy, the tabular one or the row-tuple one; in
\* particular when the tabular comparison completes with 'not equal' and
\* the sorted row tuples are equal.  So Execution Accuracy is 1.0 exactly
\* when some candidate matches under one of the two.
C9_EitherStrategy ==
    \A k \in MeasuredMetrics :
        metrics[k].score = One <=>
            \E j \in 1..Len(CandsOf(k)) : TabularMatch(k, j) \/ RowsMatch(k, j)

\* with the default settings, the tabular comparison of the only candidate
\* completes with 'not equal', the sorted row tuples are equal, and the
\* metric has been measured
C9_Witness ==
    \E k \in MeasuredMetrics :
        /\ metrics[k].ignore_order
        /\ metrics[k].null_equal
        /\ Len(CandsOf(k)) = 1
        /\ CompareDf(metrics[k], db, CandsOf(k)[1], PredOf).ok
        /\ ~TabularMatch(k, 1)
        /\ RowsMatch(k, 1)

\* C10: order-insensitivity: with ignore_order = true, Execution Accuracy
\* against a gold result and against any permutation of its rows gives the
\* same score, for the same predicted result.
C10_OrderInsensitive ==
    ("gp" \in DOMAIN db /\ mi = 3 /\ metrics[1].ignore_order) =>
        metrics[1].score = metrics[2].score

\* both metrics are measured, the second gold result is the first with its
\* two different rows exchanged, and the prediction matches
C10_Witness ==
    /\ "gp" \in DOMAIN db
    /\ mi = 3
    /\ metrics[1].ignore_order
    /\ db["g"].val # db["gp"].val
    /\ db["p"].val = db["g"].val
    /\ metrics[1].score = One
    /\ metrics[2].score = One

\* the rows of P are the rows of G in another order: a permutation of G
\* that differs from G, as Python values, at some position
SameRowsOtherOrder(G, P) ==
    /\ Len(P) = Len(G)
    /\ \E f \in Perms(Len(G)) : P = Permute(G, f)
    /\ \E i \in 1..Len(G) : ~TupleEq(G[i], P[i])

\* C11: rows are sorted before comparison only when ignore_order is
\* enabled: with ignore_order = false a predicted result that holds the
\* rows of the gold result in a different order is judged not accurate,
\* whichever strategy, tabular or row-tuple fallback, decides.
C11_OrderRespected ==
    \A k \in MeasuredMetrics :
        (/\ ~metrics[k].ignore_order
         /\ Len(CandsOf(k)) = 1
         /\ BackendExec(db, CandsOf(k)[1]).ok
         /\ BackendExec(db, PredOf).ok
         /\ SameRowsOtherOrder(BackendExec(db, CandsOf(k)[1]).val, BackendExec(db, PredOf).val))
        => metrics[k].score = Zero

\* with ignore_order = false the tabular comparison raised, the row-tuple
\* comparison decided, and the prediction holds the gold's rows in another
\* order
C11_Witness ==
    \E k \in MeasuredMetrics :
        /\ ~metrics[k].ignore_order
        /\ Len(CandsOf(k)) = 1
        /\ ~CompareDf(metrics[k], db, CandsOf(k)[1], PredOf).ok
        /\ CompareRows(metrics[k], db, CandsOf(k)[1], PredOf).ok
        /\ SameRowsOtherOrder(BackendExec(db, CandsOf(k)[1]).val, BackendExec(db, PredOf).val)

\* the gold and predicted rows of metric k, when it has one candidate and
\* both texts execute
HasBothResults(k) ==
    /\ Len(CandsOf(k)) = 1
    /\ BackendExec(db, CandsOf(k)[1]).ok
    /\ BackendExec(db, PredOf).ok

GoldRows(k) == BackendExec(db, CandsOf(k)[1]).val

PredRows(k) == BackendExec(db, PredOf).val

DefaultSettings(k) == metrics[k].ignore_order /\ metrics[k].null_equal

SameShape(G, P) == Len(G) = Len(P) /\ \A i \in 1..Len(G) : Len(G[i]) = Len(P[i])

\* two floats with the same sign and the same digits up to the sixth
\* decimal place
SameSixDecimals(a, b) ==
    /\ a.k = "float" /\ b.k = "float"
    /\ (a.v >= 0) = (b.v >= 0)
    /\ Abs(a.v) \div Unit = Abs(b.v) \div Unit

\* C12: precision tolerance: under default settings, when the predicted
\* result equals the gold result except that some float cells differ from
\* the gold float only in digits after the 6th decimal place, Execution
\* Accuracy scores 1.0.
C12_PrecisionTolerance ==
    \A k \in MeasuredMetrics :
        (/\ DefaultSettings(k)
         /\ HasBothResults(k)
         /\ SameShape(GoldRows(k), PredRows(k))
         /\ \A i \in 1..Len(GoldRows(k)) : \A j \in 1..Len(GoldRows(k)[i]) :
               \/ GoldRows(k)[i][j] = PredRows(k)[i][j]
               \/ SameSixDecimals(GoldRows(k)[i][j], PredRows(k)[i][j])
         /\ \E i \in 1..Len(GoldRows(k)) : \E j \in 1..Len(GoldRows(k)[i]) :
               GoldRows(k)[i][j] # PredRows(k)[i][j])
        => metrics[k].score = One

\* the gold float and the predicted float have the same first six decimal
\* digits and round to different values
C12_Witness ==
    \E k \in MeasuredMetrics :
        /\ DefaultSettings(k)
        /\ HasBothResults(k)
        /\ SameShape(GoldRows(k), PredRows(k))
        /\ Len(GoldRows(k)) = 2
        /\ GoldRows(k)[2] = PredRows(k)[2]
        /\ SameSixDecimals(GoldRows(k)[1][1], PredRows(k)[1][1])
        /\ Round6(GoldRows(k)[1][1].v) # Round6(PredRows(k)[1][1].v)

\* C13: null tolerance: under default settings, when the predicted result
\* equals the gold result except that null cells are represented by the
\* other null-like value (None against NaN), Execution Accuracy scores 1.0,
\* also when the result has several rows and the null sits in a column
\* that otherwise holds numbers.
C13_NullTolerance ==
    \A k \in MeasuredMetrics :
        (/\ DefaultSettings(k)
         /\ HasBothResults(k)
         /\ SameShape(GoldRows(k), PredRows(k))
         /\ \A i \in 1..Len(GoldRows(k)) : \A j \in 1..Len(GoldRows(k)[i]) :
               \/ GoldRows(k)[i][j] = PredRows(k)[i][j]
               \/ (IsNull(GoldRows(k)[i][j]) /\ IsNull(PredRows(k)[i][j]))
         /\ \E i \in 1..Len(GoldRows(k)) : \E j \in 1..Len(GoldRows(k)[i]) :
               GoldRows(k)[i][j] # PredRows(k)[i][j])
        => metrics[k].score = One

\* one column, two rows: a number, and a null that is None in the gold
\* result and NaN in the predicted one
C13_Witness ==
    \E k \in MeasuredMetrics :
        /\ DefaultSettings(k)
        /\ HasBothResults(k)
        /\ Len(GoldRows(k)) = 2
        /\ Len(PredRows(k)) = 2
        /\ GoldRows(k)[1] = PredRows(k)[1]
        /\ Len(GoldRows(k)[1]) = 1
        /\ IsNum(GoldRows(k)[1][1])
        /\ GoldRows(k)[2] = <<None>>
        /\ PredRows(k)[2] = <<NaN>>

\* ------------------------------------------------------------------------
\* Specification of the metrics that take gold_sql, built by the caller and
\* measured in turn on one prediction, and of _jaccard called on token sets
\* ------------------------------------------------------------------------
CallerStart(ms, pred, cs, at) ==
    /\ calls = cs
    /\ run_options = NoOptions
    /\ db = FixtureDb
    /\ backend = SQLAlchemyBackend
    /\ tcs = <<>>
    /\ preds_list = <<>>
    /\ dialect = "none"
    /\ component_weights = NoWeights
    /\ threshold_override = NoOverride
    /\ prev = NoReport
    /\ pc = at
    /\ idx = 0
    /\ case = [input |-> "", actual_output |-> pred]
    /\ metrics = ms
    /\ mi = 1
    /\ all_results = <<>>
    /\ success_all = 0
    /\ report = NoReport
    /\ log = <<>>

\* the tokens a component set is drawn from
TokenNames == <<"t", "u", "a", "b", "c", "d">>

Tokens == {Tok(TokenNames[i], FALSE) : i \in 1..MaxTokens}

\* a call of _jaccard that has not returned yet
Pending(a, b) == [a |-> a, b |-> b, result |-> NoScore]

\* _jaccard is to be called on (A, B), on (B, A) and on (A, A)
InitJaccard ==
    \E A \in SUBSET Tokens, B \in SUBSET Tokens :
        CallerStart(<<>>, "", <<Pending(A, B), Pending(B, A), Pending(A, A)>>, "jaccard")

\* the next pending call of _jaccard returns
CallJaccard ==
    /\ pc = "jaccard"
    /\ \E i \in 1..Len(calls) :
          /\ calls[i].result = NoScore
          /\ \A j \in 1..(i - 1) : calls[j].result # NoScore
          /\ calls' = [calls EXCEPT ![i].result = Jaccard(calls[i].a, calls[i].b)]
    /\ UNCHANGED <<tcs, preds_list, db, backend, run_options, config, pc, idx, case,
                   metrics, mi, all_results, success_all, report, log, prev>>

\* the SQL texts given to the metrics: the fixture's, and the empty text
StaticTexts == FixtureTexts \cup {""}

StaticGolds ==
    {GoldStr(q) : q \in StaticTexts}
        \cup {GoldList(l) : l \in SeqsUpTo(StaticTexts, MaxCands)}
        \cup {GoldNumber}

StaticPreds == FixtureTexts \cup {"", " ", " qa "}

\* the candidates in reverse order
ReverseGold(g) ==
    [g EXCEPT !.items = [i \in 1..Len(g.items) |-> g.items[Len(g.items) + 1 - i]]]

\* three ComponentMatchMetric on one prediction: the gold with the weights,
\* the gold with the weights scaled, the gold reversed with the weights
InitComponent ==
    \E gold \in StaticGolds, pred \in StaticPreds, d \in StaticDialects,
       w \in StaticWeights, c \in ScaleChoices :
        CallerStart(<<ComponentMatchMetric(gold, d, w),
                      ComponentMatchMetric(gold, d, KnownScaled[<<w, c>>]),
                      ComponentMatchMetric(ReverseGold(gold), d, w)>>,
                    pred, <<>>, "measure")

\* two SQLSemanticMatchMetric on one prediction: the gold, the gold reversed
InitSemantic ==
    \E gold \in StaticGolds, pred \in StaticPreds, d \in StaticDialects :
        CallerStart(<<SQLSemanticMatchMetric(gold, d),
                      SQLSemanticMatchMetric(ReverseGold(gold), d)>>,
                    pred, <<>>, "measure")

\* each of the three metrics that take gold_sql, given the text s and given
\* the list [s], on one prediction
InitStringOrList ==
    \E s \in StaticTexts, pred \in StaticPreds, d \in StaticDialects,
       w \in StaticWeights, b \in {SQLAlchemyBackend, NoTableBackend, SparkBackend} :
        /\ db = FixtureDb
        /\ backend = b
        /\ DirectStart(<<ExecutionAccuracyMetric(GoldStr(s), TRUE, TRUE),
                         ExecutionAccuracyMetric(GoldList(<<s>>), TRUE, TRUE),
                         SQLSemanticMatchMetric(GoldStr(s), d),
                         SQLSemanticMatchMetric(GoldList(<<s>>), d),
                         ComponentMatchMetric(GoldStr(s), d, w),
                         ComponentMatchMetric(GoldList(<<s>>), d, w)>>,
                       pred)

InitStatic == InitJaccard \/ InitComponent \/ InitSemantic \/ InitStringOrList

NextStatic ==
    CallJaccard \/ MeasureComponent \/ MeasureSemantic \/ MeasureExecutionAccuracy

SpecStatic == InitStatic /\ [][NextStatic]_vars

\* ------------------------------------------------------------------------
\* Properties of _jaccard
\* ------------------------------------------------------------------------
Returned == {i \in 1..Len(calls) : calls[i].result # NoScore}

\* x is a float within half a unit in its last place of n / d, for
\* 0 <= n <= d and 0 < d: |x.m * 2^x.e * d - n| <= 2^x.e * d / 2
NearestTo(x, n, d) ==
    IF n = 0 THEN x = Zero
    ELSE /\ x.s = 1
         /\ x.e <= 0
         /\ NatBits(x.m) = 53
         /\ Bind(NatMul(x.m, NatOfInt(d)), LAMBDA left :
            Bind(NatShl(NatOfInt(n), -x.e), LAMBDA right :
               NatCmp(NatScale(IF NatCmp(left, right) >= 0 THEN NatSub(left, right)
                               ELSE NatSub(right, left), 2),
                      NatOfInt(d)) <= 0))

\* C14: Jaccard index: for all token sets A and B, 0 <= J(A,B) <= 1,
\* J(A,B) = J(B,A), J(A,A) = 1 (also for the empty set), J(empty,empty) = 1,
\* J(A,empty) = 0 whenever A is non-empty, and otherwise
\* J(A,B) = |A intersect B| / |A union B|.
C14_JaccardLaws ==
    /\ \A i \in Returned :
          /\ FloatLeq(Zero, calls[i].result) /\ FloatLeq(calls[i].result, One)
          /\ calls[i].a = calls[i].b => calls[i].result = One
          /\ (calls[i].a # {} /\ calls[i].b = {}) => calls[i].result = Zero
          /\ (calls[i].a # {} /\ calls[i].b # {}) =>
                NearestTo(calls[i].result, Cardinality(calls[i].a \cap calls[i].b),
                          Cardinality(calls[i].a \cup calls[i].b))
    /\ \A i \in Returned : \A j \in Returned :
          (calls[i].a = calls[j].b /\ calls[i].b = calls[j].a)
              => calls[i].result = calls[j].result

\* the three calls have returned for two overlapping sets neither of which
\* holds the other
C14_Witness ==
    /\ pc = "jaccard"
    /\ Returned = 1..3
    /\ calls[1].a \cap calls[1].b # {}
    /\ calls[1].a \ calls[1].b # {}
    /\ calls[1].b \ calls[1].a # {}

\* ------------------------------------------------------------------------
\* Properties of ComponentMatchMetric
\* ------------------------------------------------------------------------
ComponentMetrics ==
    {k \in 1..Len(metrics) : k < mi /\ metrics[k].name = "component_match_sql"}

HasCandidates(k) == Candidates(metrics[k].gold_sql).ok

\* the components of the prediction and of candidate j of metric k
PredParse(k) == SafeParse(PredOf, metrics[k].dialect)

GoldParse(k, j) == SafeParse(CandsOf(k)[j], metrics[k].dialect)

PredComps(k) == CollectComponents(PredParse(k).val)

GoldComps(k, j) == CollectComponents(GoldParse(k, j).val)

Parseable(k) == {j \in 1..Len(CandsOf(k)) : GoldParse(k, j).ok}

\* the sum of the supplied weights, and of w_x * J(pred_x, gold_x), added in
\* the order the weights are supplied
RECURSIVE SumOver(_, _, _)
SumOver(terms, i, sum) ==
    IF i > Len(terms) THEN sum
    ELSE Bind(FloatAdd(sum, terms[i]), LAMBDA next : SumOver(terms, i + 1, next))

TotalWeight(w) == SumOver([i \in 1..Len(w) |-> w[i].w], 1, Zero)

\* sum of w_x * J(pred_x, gold_x) over the supplied kinds x, divided by the
\* sum of the supplied weights
WeightedMean(w, p, g) ==
    FloatDiv(SumOver([i \in 1..Len(w) |->
                         FloatMul(w[i].w, Jaccard(Get(p, w[i].k), Get(g, w[i].k)))], 1, Zero),
             TotalWeight(w))

SingleParsed(k) ==
    /\ HasCandidates(k)
    /\ Len(CandsOf(k)) = 1
    /\ PredParse(k).ok
    /\ GoldParse(k, 1).ok
    /\ TotalWeight(metrics[k].weights) # Zero

\* C15: for one gold candidate the Component Match score is the sum over
\* the supplied kinds of w_k * J(pred_k, gold_k) divided by the sum of the
\* supplied weights, so the metric given every weight multiplied by the same
\* positive constant has the same score.
C15_WeightedMean ==
    /\ \A k \in ComponentMetrics :
          SingleParsed(k) =>
              metrics[k].score
                  = WeightedMean(metrics[k].weights, PredComps(k), GoldComps(k, 1))
    /\ (3 \in ComponentMetrics /\ SingleParsed(1)) => metrics[2].score = metrics[1].score

\* one candidate, weights 2 on tables and -1 on order_by, Jaccard 0 on
\* tables and 1 on order_by: the weighted mean is -1
C15_Witness ==
    /\ 1 \in ComponentMetrics
    /\ SingleParsed(1)
    /\ metrics[1].weights = <<Weight("tables", FloatOfInt(2)), Weight("order_by", FloatOfInt(-1))>>
    /\ WeightedMean(metrics[1].weights, PredComps(1), GoldComps(1, 1)) = FloatOfInt(-1)

\* the score computed for candidate j of Component Match metric k
ScoreAgainst(k, j) == CandidateScore(metrics[k], PredComps(k), GoldComps(k, j)).score

SemanticMetrics ==
    {k \in 1..Len(metrics) : k < mi /\ metrics[k].name = "semantic_match_sql"}

\* the canonical text of the prediction and of candidate j of metric k
PredNorm(k) == Normalize(metrics[k], case.actual_output)

GoldNorm(k, j) == Normalize(metrics[k], CandsOf(k)[j])

Normalizable(k) == {j \in 1..Len(CandsOf(k)) : GoldNorm(k, j).ok}

\* what Semantic Match metric k gives candidate j alone
SemanticAgainst(k, j) == SemanticCandidate(metrics[k], CandsOf(k)[j], PredNorm(k).val, Zero)

\* x is the greatest of the values F(j), j in S
IsMaxOver(x, S, F(_)) == (\E j \in S : F(j) = x) /\ (\A j \in S : FloatLeq(F(j), x))

\* C16: multi-gold best-of: the Component Match score and the Semantic
\* Match score each equal the maximum of the per-candidate scores over the
\* candidates that could be parsed, and do not depend on the order of the
\* candidates.
C16_BestOf ==
    /\ \A k \in ComponentMetrics :
          (HasCandidates(k) /\ PredParse(k).ok /\ Parseable(k) # {})
              => IsMaxOver(metrics[k].score, Parseable(k), LAMBDA j : ScoreAgainst(k, j))
    /\ 3 \in ComponentMetrics => metrics[3].score = metrics[1].score
    /\ \A k \in SemanticMetrics :
          (HasCandidates(k) /\ PredNorm(k).ok /\ Normalizable(k) # {})
              => IsMaxOver(metrics[k].score, Normalizable(k), LAMBDA j : SemanticAgainst(k, j))
    /\ 2 \in SemanticMetrics => metrics[2].score = metrics[1].score

\* two parseable candidates, each with a score below zero
C16_Witness ==
    /\ 1 \in ComponentMetrics
    /\ HasCandidates(1)
    /\ PredParse(1).ok
    /\ Parseable(1) = {1, 2}
    /\ FloatLt(ScoreAgainst(1, 1), Zero)
    /\ FloatLt(ScoreAgainst(1, 2), Zero)

\* the per-kind Jaccard values computed for candidate j of metric k
BreakdownAgainst(k, j) == CandidateScore(metrics[k], PredComps(k), GoldComps(k, j)).scores

\* C17: whenever Component Match computes a score from at least one
\* parseable gold candidate, details.per_component is the per-kind Jaccard
\* breakdown of a candidate whose score is the reported maximum, also when
\* that maximum is 0.0.
C17_WinningBreakdown ==
    \A k \in ComponentMetrics :
        (HasCandidates(k) /\ PredParse(k).ok /\ Parseable(k) # {})
            => /\ ~metrics[k].details.per_component.none
               /\ \E j \in Parseable(k) :
                     /\ ScoreAgainst(k, j) = metrics[k].score
                     /\ BreakdownAgainst(k, j) = metrics[k].details.per_component.scores

\* one candidate, the single weight on tables, and no table in common: the
\* candidate's score and the reported maximum are 0.0
C17_Witness ==
    /\ 1 \in ComponentMetrics
    /\ HasCandidates(1)
    /\ PredParse(1).ok
    /\ Parseable(1) = {1}
    /\ metrics[1].weights = <<Weight("tables", FloatOfInt(1))>>
    /\ ScoreAgainst(1, 1) = Zero
    /\ metrics[1].score = Zero

\* C18: in Component Match a parse failure of the predicted SQL, an empty
\* prediction included, gives score 0.0 with a reason that names the
\* failure; a parse failure of a gold candidate excludes only that
\* candidate, the score being the maximum over the remaining candidates.
C18_ParseFailures ==
    \A k \in ComponentMetrics :
        /\ ~PredParse(k).ok
              => /\ metrics[k].score = Zero
                 /\ metrics[k].reason = "parse/compare error"
                 /\ metrics[k].details = [error |-> PredParse(k).val]
        /\ (/\ PredParse(k).ok
            /\ HasCandidates(k)
            /\ Parseable(k) # {}
            /\ Parseable(k) # 1..Len(CandsOf(k)))
              => IsMaxOver(metrics[k].score, Parseable(k), LAMBDA j : ScoreAgainst(k, j))

\* the first candidate does not parse, the second one does and scores
\* below zero
C18_Witness ==
    /\ 1 \in ComponentMetrics
    /\ PredParse(1).ok
    /\ HasCandidates(1)
    /\ Parseable(1) = {2}
    /\ FloatLt(ScoreAgainst(1, 2), Zero)

\* ------------------------------------------------------------------------
\* Properties of SQLSemanticMatchMetric
\* ------------------------------------------------------------------------
\* some candidate's canonical text is the prediction's
SomeEqual(k) == \E j \in Normalizable(k) : GoldNorm(k, j).val = PredNorm(k).val

\* for some candidate one canonical text is a substring of the other
SomeSubstring(k) ==
    \E j \in Normalizable(k) :
        \/ IsSubstring(PredNorm(k).val, GoldNorm(k, j).val)
        \/ IsSubstring(GoldNorm(k, j).val, PredNorm(k).val)

\* the same, for a candidate and a prediction whose canonical texts are
\* both non-empty
SomeProperSubstring(k) ==
    \E j \in Normalizable(k) :
        /\ PredNorm(k).val # <<>>
        /\ GoldNorm(k, j).val # <<>>
        /\ \/ IsSubstring(PredNorm(k).val, GoldNorm(k, j).val)
           \/ IsSubstring(GoldNorm(k, j).val, PredNorm(k).val)

ThreeLevels(k) == metrics[k].score \in {Zero, Half, One}

\* C19 as stated: Semantic Match scores 1.0 if the canonical text of the
\* prediction equals that of some gold candidate, otherwise 0.5 if for some
\* candidate one canonical text is a substring of the other, otherwise 0.0;
\* the score is always one of 0.0, 0.5, 1.0.
C19_AnySubstring ==
    \A k \in SemanticMetrics :
        /\ ThreeLevels(k)
        /\ (HasCandidates(k) /\ PredNorm(k).ok)
              => metrics[k].score = IF SomeEqual(k) THEN One
                                    ELSE IF SomeSubstring(k) THEN Half
                                    ELSE Zero

\* C19 amended: Semantic Match scores 1.0 if the canonical text of the
\* prediction equals that of some gold candidate, otherwise 0.5 if for some
\* candidate both canonical texts are non-empty and one is a substring of
\* the other, otherwise 0.0; the score is always one of 0.0, 0.5, 1.0.
C19_ThreeLevels ==
    \A k \in SemanticMetrics :
        /\ ThreeLevels(k)
        /\ (HasCandidates(k) /\ PredNorm(k).ok)
              => metrics[k].score = IF SomeEqual(k) THEN One
                                    ELSE IF SomeProperSubstring(k) THEN Half
                                    ELSE Zero

\* no candidate's text equals the prediction's and one contains it: 0.5
C19_Witness ==
    /\ 1 \in SemanticMetrics
    /\ HasCandidates(1)
    /\ PredNorm(1).ok
    /\ ~SomeEqual(1)
    /\ SomeProperSubstring(1)
    /\ metrics[1].score = Half

\* C20: in Semantic Match a gold candidate whose normalisation fails to
\* parse is excluded and the remaining candidates alone determine the
\* score; a prediction whose normalisation fails to parse gives score 0.0
\* with a parse-error reason, and measure() does not raise.
C20_NormalizeFailures ==
    /\ \A k \in SemanticMetrics :
          /\ ~PredNorm(k).ok
                => /\ metrics[k].score = Zero
                   /\ metrics[k].reason = "parse/normalize error"
          /\ (/\ PredNorm(k).ok
              /\ HasCandidates(k)
              /\ Normalizable(k) # 1..Len(CandsOf(k)))
                => IF Normalizable(k) = {} THEN metrics[k].score = Zero
                   ELSE IsMaxOver(metrics[k].score, Normalizable(k),
                                  LAMBDA j : SemanticAgainst(k, j))
    /\ \A i \in 1..Len(log) : log[i].metric = "semantic_match_sql" => ~log[i].raised

\* the first candidate matches the prediction exactly, the second one does
\* not parse: score 1.0
C20_Witness ==
    /\ 1 \in SemanticMetrics
    /\ PredNorm(1).ok
    /\ HasCandidates(1)
    /\ Normalizable(1) = {1}
    /\ Len(CandsOf(1)) = 2
    /\ metrics[1].score = One

\* ------------------------------------------------------------------------
\* Properties of run_eval: predictions, report, backend
\* ------------------------------------------------------------------------
\* the predictions file gives test case i no entry, or a pred_sql that is
\* null, empty or whitespace only
EmptyIn(preds, i) ==
    \/ tcs[i].id \notin DOMAIN preds
    \/ preds[tcs[i].id].t = "null"
    \/ (preds[tcs[i].id].t = "str" /\ Strip(preds[tcs[i].id].s) = "")

EmptyPrediction(i) ==
    \A preds \in {PredsDict(preds_list, Len(preds_list))} : EmptyIn(preds, i)

\* the outcome of the named metric in a case report
OutcomeOf(r, name) == r.metrics[CHOOSE k \in 1..Len(r.metrics) : r.metrics[k].name = name]

\* C21: a test case whose id has no entry in the predictions, or whose
\* pred_sql is null, empty or whitespace only, is evaluated with the empty
\* prediction without raising: its report has Executability 0.0 with reason
\* "empty sql", Execution Accuracy 0.0 and passed_all false.
C21_MissingPrediction ==
    /\ \A i \in 1..Len(all_results) :
          EmptyPrediction(i) =>
             /\ all_results[i].pred_sql = ""
             /\ OutcomeOf(all_results[i], "executable_sql").score = Zero
             /\ OutcomeOf(all_results[i], "executable_sql").reason = "empty sql"
             /\ OutcomeOf(all_results[i], "execution_accuracy").score = Zero
             /\ ~all_results[i].passed_all
    /\ (pc = "aborted" /\ EmptyPrediction(idx + 1)) => tcs[idx + 1].gold_sql = GoldMissing
    /\ (pc \in {"measure", "report"} /\ EmptyPrediction(idx + 1)) => case.actual_output = ""

\* a report with a case that has no entry in the predictions and a case
\* whose pred_sql is null
C21_Witness ==
    \E i, j \in 1..Len(all_results) :
        /\ \A n \in 1..Len(preds_list) : preds_list[n].id # tcs[i].id
        /\ \E n \in 1..Len(preds_list) :
              preds_list[n].id = tcs[j].id /\ preds_list[n].pred_sql = PredNull
        /\ OutcomeOf(all_results[i], "executable_sql").reason = "empty sql"
        /\ OutcomeOf(all_results[j], "executable_sql").reason = "empty sql"

\* C22: Executability is 1.0 exactly when the non-empty predicted SQL
\* executes on the backend without raising, and 0.0 when the execution
\* raises, the reason then carrying the backend's diagnostic text, or when
\* the prediction is empty; the score does not depend on the gold SQL.
C22_Executability ==
    /\ \A i \in 1..Len(all_results) :
          \A o \in {OutcomeOf(all_results[i], "executable_sql")} :
          \A p \in {all_results[i].pred_sql} :
             /\ o.score \in {Zero, One}
             /\ o.score = One <=> (p # "" /\ BackendExec(db, p).ok)
             /\ (p # "" /\ ~BackendExec(db, p).ok)
                    => o.reason = "exec error: " \o BackendExec(db, p).val
             /\ p = "" => o.reason = "empty sql"
    /\ \A i, j \in 1..Len(all_results) :
          all_results[i].pred_sql = all_results[j].pred_sql
              => OutcomeOf(all_results[i], "executable_sql").score
                    = OutcomeOf(all_results[j], "executable_sql").score

\* a report of two cases with the same executable prediction and
\* different gold_sql
C22_Witness ==
    /\ Len(all_results) = 2
    /\ all_results[1].gold_sql # all_results[2].gold_sql
    /\ OutcomeOf(all_results[1], "executable_sql").score = One
    /\ OutcomeOf(all_results[2], "executable_sql").score = One
    /\ all_results[1].pred_sql = all_results[2].pred_sql

\* C23: the report is a pure aggregate of the case reports: results holds
\* exactly one case report per input test case, in input order,
\* summary.total is the number of test cases, and summary.passed_all is the
\* number of case reports whose passed_all is true, so that
\* 0 <= passed_all <= total.
C23_ReportIsAggregate ==
    report.returned =>
        /\ Len(report.results) = Len(tcs)
        /\ \A i \in 1..Len(tcs) :
              /\ report.results[i].id = tcs[i].id
              /\ report.results[i].gold_sql = tcs[i].gold_sql
        /\ report.summary.total = Len(tcs)
        /\ report.summary.passed_all
              = Cardinality({i \in 1..Len(report.results) : report.results[i].passed_all})
        /\ 0 <= report.summary.passed_all
        /\ report.summary.passed_all <= report.summary.total

\* a returned report of two cases of which exactly one passed
C23_Witness ==
    /\ report.returned
    /\ Len(report.results) = 2
    /\ report.summary.passed_all = 1
    /\ ~report.results[1].passed_all
    /\ report.results[2].passed_all

\* the connections that served the executions of the run so far
UsedConnections == UNION {{log[i].conns[k] : k \in 1..Len(log[i].conns)} : i \in 1..Len(log)}

\* C24: during one run_eval call exactly one backend connection is created,
\* and that connection serves every SQL execution of every test case and of
\* every metric that executes: no connection is opened per test case, per
\* metric or per query.
C24_SingleConnection == Cardinality(UsedConnections) <= 1

\* two test cases have been measured and each of them had SQL executed by
\* Executability and by Execution Accuracy
C24_Witness ==
    /\ pc = "done"
    /\ \A c \in 1..2 : \A m \in {"executable_sql", "execution_accuracy"} :
          \E i \in 1..Len(log) :
              log[i].case = c /\ log[i].metric = m /\ Len(log[i].execs) > 0

\* ------------------------------------------------------------------------
\* Properties of _collect_components
\* ------------------------------------------------------------------------
\* C25: every token of every kind in a component set produced by the
\* extractor (tables, columns, aggregates, joins, predicates, group_by,
\* order_by) is lower-cased, so that fragments differing only in letter
\* case yield equal tokens.
C25_TokensLowerCased ==
    \A k \in ComponentMetrics :
        /\ PredParse(k).ok
              => \A kind \in Kinds : \A t \in PredComps(k)[kind] : ~t.up
        /\ HasCandidates(k)
              => \A j \in Parseable(k) :
                    \A kind \in Kinds : \A t \in GoldComps(k, j)[kind] : ~t.up

\* the components of a prediction with a WHERE clause have been collected
C25_Witness ==
    \E k \in ComponentMetrics :
        /\ PredParse(k).ok
        /\ PredComps(k)["predicates"] # {}
        /\ PredComps(k)["tables"] # {}

\* ------------------------------------------------------------------------
\* Properties of the run configuration
\* ------------------------------------------------------------------------
\* the value a run is configured with: the option given, else the default
Configured(option) == IF option \in DOMAIN run_options THEN run_options[option] ELSE TRUE

\* C26: the run configuration recognises ignore_order and null_equal (both
\* default true): a run configured with them is carried out, and the values
\* configured are the values every Execution Accuracy comparison of the run
\* uses.
C26_OptionsHonoured ==
    /\ pc # "rejected"
    /\ \A k \in 1..Len(metrics) :
          metrics[k].name = "execution_accuracy"
              => /\ metrics[k].ignore_order = Configured("ignore_order")
                 /\ metrics[k].null_equal = Configured("null_equal")

\* run_eval has been called with ignore_order=False
C26_Witness ==
    /\ "ignore_order" \in DOMAIN run_options
    /\ ~run_options["ignore_order"]
    /\ Len(tcs) > 0
    /\ pc = "rejected"

\* C27: for each of the four metrics, once measure() has returned, by any
\* path, score is non-null and reason is non-null; so every outcome that
\* run_eval reports has a non-null score, and the verdict of an outcome is
\* score >= threshold, the 'score is None' case never deciding it.
C27_ScoreAndReasonSet ==
    /\ \A k \in 1..Len(metrics) :
          (pc \in {"measure", "report"} /\ k < mi)
              => metrics[k].score # NoScore /\ metrics[k].reason # "None"
    /\ \A i \in 1..Len(all_results) : \A k \in 1..Len(all_results[i].metrics) :
          \A o \in {all_results[i].metrics[k]} :
             /\ o.score # NoScore
             /\ o.reason # "None"
             /\ PassOk(o.score, o.threshold) <=> FloatLeq(o.threshold, o.score)

\* a report whose case was measured along the early returns (empty
\* prediction) and one measured along the error paths (gold_sql a number)
C27_Witness ==
    \E i, j \in 1..Len(all_results) :
        /\ all_results[i].pred_sql = ""
        /\ all_results[j].pred_sql # ""
        /\ all_results[j].gold_sql = GoldNumber
        /\ Len(all_results[i].metrics) = 4
        /\ Len(all_results[j].metrics) = 4

\* C28: when the prediction of a case is empty or whitespace only, scoring
\* that case performs no backend execution: neither Executability nor
\* Execution Accuracy executes the prediction or a gold candidate.
C28_NoExecutionOnEmpty ==
    \A preds \in {PredsDict(preds_list, Len(preds_list))} :
        \A n \in 1..Len(log) :
            EmptyIn(preds, log[n].case)
                => /\ log[n].execs = <<>>
                   /\ log[n].conns = <<>>

\* the four metrics of a case with an empty prediction and an executable
\* gold_sql have been measured
C28_Witness ==
    \E i \in 1..Len(all_results) :
        /\ EmptyPrediction(i)
        /\ all_results[i].gold_sql = GoldStr("qa")
        /\ \A name \in {"executable_sql", "execution_accuracy"} :
              \E n \in 1..Len(log) : log[n].case = i /\ log[n].metric = name

\* ------------------------------------------------------------------------
\* Properties of the gold_sql argument
\* ------------------------------------------------------------------------
\* metric k was given a text and metric k + 1 the one-element list of it
StringThenList(k) ==
    /\ k + 1 \in 1..Len(metrics)
    /\ metrics[k].name = metrics[k + 1].name
    /\ metrics[k].gold_sql.t = "str"
    /\ metrics[k + 1].gold_sql = GoldList(metrics[k].gold_sql.items)

\* C29: for each of Execution Accuracy, Semantic Match and Component Match,
\* and for every prediction and backend, a gold_sql given as the single
\* string s yields the same score as a gold_sql given as the one-element
\* sequence [s].
C29_StringOrList ==
    \A k \in 1..Len(metrics) :
        (StringThenList(k) /\ k + 1 < mi) => metrics[k].score = metrics[k + 1].score

\* the six metrics have been measured and each of them scored 1.0
C29_Witness ==
    /\ Len(metrics) = 6
    /\ mi = 7
    /\ \A k \in {1, 3, 5} : StringThenList(k) /\ metrics[k].score = One

\* C30: an empty or whitespace-only prediction never receives a Semantic
\* Match score above 0.0, whatever the list of gold candidates, a list with
\* an empty or whitespace-only candidate included: neither the substring
\* rule nor the equality rule rewards the empty text.
C30_EmptyPredictionScoresZero ==
    \A k \in SemanticMetrics : PredOf = "" => metrics[k].score = Zero

\* an empty prediction measured against a list that holds an empty
\* candidate and a candidate that parses
C30_Witness ==
    \E k \in SemanticMetrics :
        /\ PredOf = ""
        /\ HasCandidates(k)
        /\ Len(CandsOf(k)) = 2
        /\ \E j \in 1..2 : Strip(CandsOf(k)[j]) = ""
        /\ \E j \in 1..2 : GoldNorm(k, j).ok /\ GoldNorm(k, j).val # <<>>

====
